---------------------------- MODULE Spec2Model ----------------------------
(***************************************************************************)
(* TrinTasks background service worker (src/background.js): the reminder   *)
(* scheduler.  Persisted state lives in chrome.storage.local, alarms in    *)
(* chrome.alarms, notifications in chrome.notifications.  Every handler is *)
(* an async function: it reads storage, computes synchronously, and its    *)
(* storage write lands later, so two handlers can interleave between one   *)
(* handler's read and its write.                                           *)
(*                                                                         *)
(* Time is counted in whole seconds since the Unix epoch (every timestamp  *)
(* the code derives from a token is a multiple of 1000 ms, and the lead    *)
(* times are whole hours), so 1 hour = 3600 and 0.1 minute = 6.            *)
(***************************************************************************)
EXTENDS Integers, Sequences, FiniteSets, TLC

VARIABLES
    now,        \* Date.now(), in seconds
    tz,         \* the host's local time zone, minutes east of UTC
    storage,    \* chrome.storage.local
    alarms,     \* chrome.alarms: name -> [when, by]
    displayed,  \* chrome.notifications currently shown (ids)
    notified,   \* id -> number of chrome.notifications.create calls so far
    pending,    \* storage writes issued and not yet applied (FIFO)
    clicks,     \* notification buttons pressed so far
    overlaps,   \* handlers started so far while a write was in flight
    last,       \* what the handler that ran last at this instant read and did
    theme       \* the popup's ThemeManager, the document and its timers

vars == <<now, tz, storage, alarms, displayed, notified, pending, clicks, overlaps, last,
          theme>>

----------------------------------------------------------------------------
(* JavaScript values *)

\* JS null / undefined of a string-valued property (never a real token).
Null == "#null"

\* The JS number NaN; every other number of the model is an integer.
NaN == -2147483647

IsNaN(x) == x = NaN

\* !v for a string-or-null value.
Falsy(v) == v = Null \/ v = ""

\* a || b
Or(a, b) == IF Falsy(a) THEN b ELSE a

\* `${v}` for a string-or-null value.
Str(v) == IF v = Null THEN "null" ELSE v

\* s.substring(a, b), 0-based, end exclusive, clamped to the length.
Substring(s, a, b) ==
    LET e == IF b > Len(s) THEN Len(s) ELSE b
    IN IF a >= e THEN "" ELSE SubSeq(s, a + 1, e)

\* s.includes(c) for a one-character c.
Includes(s, c) == \E i \in 1..Len(s) : SubSeq(s, i, i) = c

\* s.endsWith(c) for a one-character c.
EndsWith(s, c) == Len(s) >= 1 /\ SubSeq(s, Len(s), Len(s)) = c

\* s.startsWith(p)
StartsWith(s, p) == Len(s) >= Len(p) /\ SubSeq(s, 1, Len(p)) = p

IsDigit(c) == c \in {"0", "1", "2", "3", "4", "5", "6", "7", "8", "9"}

DigitVal(c) ==
    CASE c = "0" -> 0 [] c = "1" -> 1 [] c = "2" -> 2 [] c = "3" -> 3
      [] c = "4" -> 4 [] c = "5" -> 5 [] c = "6" -> 6 [] c = "7" -> 7
      [] c = "8" -> 8 [] c = "9" -> 9

\* The value of the leading run of digits of s from position i (1-based),
\* given the value acc of the digits read so far.
RECURSIVE DigitsFrom(_, _, _)
DigitsFrom(s, i, acc) ==
    IF i <= Len(s) /\ IsDigit(SubSeq(s, i, i))
    THEN DigitsFrom(s, i + 1, acc * 10 + DigitVal(SubSeq(s, i, i)))
    ELSE acc

\* parseInt(s, 10): leading blanks skipped, an optional sign, then the
\* longest run of digits; NaN when there is no digit.
RECURSIVE ParseInt(_)
ParseInt(s) ==
    IF Len(s) = 0 THEN NaN
    ELSE IF Head(s) = " " THEN ParseInt(Tail(s))
    ELSE LET signed == Head(s) \in {"-", "+"}
             body   == IF signed THEN Tail(s) ELSE s
         IN IF Len(body) = 0 \/ ~IsDigit(Head(body)) THEN NaN
            ELSE IF Head(s) = "-" THEN 0 - DigitsFrom(body, 1, 0)
            ELSE DigitsFrom(body, 1, 0)

\* a - b, a * b on JS numbers.
Minus(a, b) == IF IsNaN(a) \/ IsNaN(b) THEN NaN ELSE a - b
Times(a, b) == IF IsNaN(a) \/ IsNaN(b) THEN NaN ELSE a * b

\* a <= b, a > b on JS numbers: every comparison with NaN is false.
Leq(a, b) == ~IsNaN(a) /\ ~IsNaN(b) /\ a <= b

\* Math.max(a, b)
MathMax(a, b) == IF IsNaN(a) \/ IsNaN(b) THEN NaN ELSE IF a >= b THEN a ELSE b

----------------------------------------------------------------------------
(* Date *)

\* Days from 1970-01-01 to the civil date y-m-d (m in 1..12; d any integer).
DaysFromCivil(y0, m, d) ==
    LET y   == IF m <= 2 THEN y0 - 1 ELSE y0
        era == y \div 400
        yoe == y - era * 400
        mp  == (m + 9) % 12
        doy == (153 * mp + 2) \div 5 + d - 1
        doe == yoe * 365 + yoe \div 4 - yoe \div 100 + doy
    IN era * 146097 + doe - 719468

\* Date.UTC(year, month, day, hour, minute, second), in seconds: month is
\* 0-based and overflows into the year, a year in 0..99 means 1900 + year,
\* and any NaN component makes the result NaN.
DateUTC(year, month, day, hour, minute, second) ==
    IF \E c \in {year, month, day, hour, minute, second} : IsNaN(c) THEN NaN
    ELSE LET yr == IF year >= 0 /\ year <= 99 THEN 1900 + year ELSE year
             ym == yr + (month \div 12)
             mn == month % 12
         IN DaysFromCivil(ym, mn + 1, day) * 86400
            + hour * 3600 + minute * 60 + second

\* new Date(year, month, day, hour, minute, second).getTime(), in seconds:
\* the same components read as local time in a zone off minutes east of UTC.
DateLocal(year, month, day, hour, minute, second, off) ==
    LET t == DateUTC(year, month, day, hour, minute, second)
    IN IF IsNaN(t) THEN NaN ELSE t - off * 60

\* ICalDateToTimestamp(dateTime), in seconds, in a zone off minutes east.
ICalDateToTimestamp(dateTime, off) ==
    IF Falsy(dateTime) THEN 0
    ELSE IF Includes(dateTime, "T") THEN
        LET year   == ParseInt(Substring(dateTime, 0, 4))
            month  == Minus(ParseInt(Substring(dateTime, 4, 6)), 1)
            day    == ParseInt(Substring(dateTime, 6, 8))
            hour   == ParseInt(Or(Substring(dateTime, 9, 11), "0"))
            minute == ParseInt(Or(Substring(dateTime, 11, 13), "0"))
            second == ParseInt(Or(Substring(dateTime, 13, 15), "0"))
        IN IF EndsWith(dateTime, "Z")
           THEN DateUTC(year, month, day, hour, minute, second)
           ELSE DateLocal(year, month, day, hour, minute, second, off)
    ELSE IF Len(dateTime) >= 8 THEN
        LET year  == ParseInt(Substring(dateTime, 0, 4))
            month == Minus(ParseInt(Substring(dateTime, 4, 6)), 1)
            day   == ParseInt(Substring(dateTime, 6, 8))
        IN DateLocal(year, month, day, 0, 0, 0, off)
    ELSE 0

\* iCalDateToTimestamp that reads every date-time as local time, with or
\* without a trailing Z.
iCalDateToTimestampAllLocal(dateTime, off) ==
    IF Falsy(dateTime) THEN 0
    ELSE IF Includes(dateTime, "T") THEN
        LET year   == ParseInt(Substring(dateTime, 0, 4))
            month  == Minus(ParseInt(Substring(dateTime, 4, 6)), 1)
            day    == ParseInt(Substring(dateTime, 6, 8))
            hour   == ParseInt(Or(Substring(dateTime, 9, 11), "0"))
            minute == ParseInt(Or(Substring(dateTime, 11, 13), "0"))
            second == ParseInt(Or(Substring(dateTime, 13, 15), "0"))
        IN DateLocal(year, month, day, hour, minute, second, off)
    ELSE IF Len(dateTime) >= 8 THEN
        LET year  == ParseInt(Substring(dateTime, 0, 4))
            month == Minus(ParseInt(Substring(dateTime, 4, 6)), 1)
            day   == ParseInt(Substring(dateTime, 6, 8))
        IN DateLocal(year, month, day, 0, 0, 0, off)
    ELSE 0

\* ICalParser.iCalDateToTimestamp(dateTime), in seconds, in a zone off
\* minutes east.
iCalDateToTimestamp(dateTime, off) ==
    IF Falsy(dateTime) THEN 0
    ELSE IF Includes(dateTime, "T") THEN
        LET year   == ParseInt(Substring(dateTime, 0, 4))
            month  == Minus(ParseInt(Substring(dateTime, 4, 6)), 1)
            day    == ParseInt(Substring(dateTime, 6, 8))
            hour   == ParseInt(Or(Substring(dateTime, 9, 11), "0"))
            minute == ParseInt(Or(Substring(dateTime, 11, 13), "0"))
            second == ParseInt(Or(Substring(dateTime, 13, 15), "0"))
        IN IF EndsWith(dateTime, "Z")
           THEN DateUTC(year, month, day, hour, minute, second)
           ELSE DateLocal(year, month, day, hour, minute, second, off)
    ELSE IF Len(dateTime) >= 8 THEN
        LET year  == ParseInt(Substring(dateTime, 0, 4))
            month == Minus(ParseInt(Substring(dateTime, 4, 6)), 1)
            day   == ParseInt(Substring(dateTime, 6, 8))
        IN DateLocal(year, month, day, 0, 0, 0, off)
    ELSE 0

----------------------------------------------------------------------------
(* Strings, as the iCal parser uses them (src/unnamed/part_004).  Indexes   *)
(* are 0-based as in JavaScript.  A search is written as the least element  *)
(* of the set of positions that match, and a replacement recurs once for    *)
(* each match.                                                              *)

\* const v = ...; followed by the statements Body that read v: v is
\* computed first, and once.
With(v, Body(_)) == CHOOSE r \in {Body(x) : x \in {v}} : TRUE

\* s.charAt(i): "" outside the string.
CharAt(s, i) == IF i >= 0 /\ i < Len(s) THEN SubSeq(s, i + 1, i + 1) ELSE ""

\* s.startsWith(p, i)
StartsWithAt(s, p, i) ==
    i >= 0 /\ i + Len(p) <= Len(s) /\ SubSeq(s, i + 1, i + Len(p)) = p

\* The least element of a non-empty set of numbers.
Least(S) == CHOOSE x \in S : \A y \in S : x <= y

\* s.indexOf(p, i): -1 when p does not occur at or after i.
IndexOfFrom(s, p, i) ==
    LET found == {j \in i..(Len(s) - Len(p)) : StartsWithAt(s, p, j)}
    IN IF found = {} THEN -1 ELSE Least(found)

\* \s of a regular expression, and what trim() removes.
IsSpace(c) == c \in {" ", "\t", "\n", "\r", "\f"}

\* A line terminator: what '.' does not match without the s flag.
IsLineBreak(c) == c \in {"\n", "\r"}

Uppers == "ABCDEFGHIJKLMNOPQRSTUVWXYZ"

Lowers == "abcdefghijklmnopqrstuvwxyz"

\* [A-Z] and [a-z] as sets of one-character strings.
UpperSet == {SubSeq(Uppers, i, i) : i \in 1..26}

LowerSet == {SubSeq(Lowers, i, i) : i \in 1..26}

IsUpper(c) == c \in UpperSet

IsLower(c) == c \in LowerSet

\* [A-Za-z0-9]
IsAlnum(c) == c \in UpperSet \/ c \in LowerSet \/ IsDigit(c)

\* \w
IsWordChar(c) == IsAlnum(c) \/ c = "_"

\* The lower-case letter of every upper-case letter.
LowerOf ==
    [c \in UpperSet |->
        LET i == CHOOSE k \in 1..26 : SubSeq(Uppers, k, k) = c
        IN SubSeq(Lowers, i, i)]

LowerChar(c) == IF c \in UpperSet THEN LowerOf[c] ELSE c

\* s.toLowerCase(), one half of the string after the other.
RECURSIVE ToLowerCase(_)
ToLowerCase(s) ==
    IF Len(s) <= 1 THEN LowerChar(s)
    ELSE ToLowerCase(SubSeq(s, 1, Len(s) \div 2))
         \o ToLowerCase(SubSeq(s, Len(s) \div 2 + 1, Len(s)))

\* Membership of a character in a named class of the regular expressions.
InClass(class, c) ==
    CASE class = "digit"    -> IsDigit(c)
      [] class = "nondigit" -> ~IsDigit(c)
      [] class = "hex"      -> IsDigit(c) \/ c \in {"a", "b", "c", "d", "e", "f",
                                                    "A", "B", "C", "D", "E", "F"}
      [] class = "space"    -> IsSpace(c)
      [] class = "nonspace" -> ~IsSpace(c)
      [] class = "line"     -> ~IsLineBreak(c)
      [] class = "newline"  -> c = "\n"
      [] class = "alnum"    -> IsAlnum(c)
      [] class = "name"     -> IsUpper(c) \/ c = "-"
      [] class = "prefix"   -> IsAlnum(c) \/ IsSpace(c) \/ c \in {":", "/"}
      [] class = "address"  -> ~(IsSpace(c) \/ c = ";")

\* The end (exclusive) of the longest run of characters of the class that
\* starts at i.
RunEnd(s, i, class) ==
    IF i < 0 \/ i >= Len(s) THEN i
    ELSE Least({j \in i..Len(s) : j = Len(s) \/ ~InClass(class, CharAt(s, j))})

\* The start of the longest run of characters of the class that ends just
\* before i.
RunStart(s, i, class) ==
    LET before == {j \in 0..(i - 1) : ~InClass(class, CharAt(s, j))}
    IN IF before = {} THEN 0
       ELSE 1 + (CHOOSE x \in before : \A y \in before : y <= x)

\* The characters of s that are of the class, one half of the string after
\* the other.
RECURSIVE Filter(_, _)
Filter(s, class) ==
    IF Len(s) = 0 THEN ""
    ELSE IF Len(s) = 1 THEN (IF InClass(class, s) THEN s ELSE "")
    ELSE Filter(SubSeq(s, 1, Len(s) \div 2), class)
         \o Filter(SubSeq(s, Len(s) \div 2 + 1, Len(s)), class)

\* s.trim()
Trim(s) ==
    LET a == RunEnd(s, 0, "space")
        b == RunStart(s, Len(s), "space")
    IN IF a >= b THEN "" ELSE Substring(s, a, b)

\* s.replace(from, to) with a string pattern: the first occurrence only.
ReplaceFirst(s, from, to) ==
    LET i == IndexOfFrom(s, from, 0)
    IN IF i = -1 THEN s
       ELSE Substring(s, 0, i) \o to \o Substring(s, i + Len(from), Len(s))

\* Whether one of the plain strings pats matches s at position p.
AnyAt(s, pats, p) == \E k \in 1..Len(pats) : StartsWithAt(s, pats[k], p)

\* s.replace(/p1|p2|.../g, to) for plain, non-empty strings p1, p2, ...: one
\* pass from left to right, the first alternative that matches wins.
RECURSIVE ReplaceAny(_, _, _)
ReplaceAny(s, pats, to) ==
    LET found == {p \in 0..(Len(s) - 1) : AnyAt(s, pats, p)}
        p     == Least(found)
        k     == CHOOSE j \in 1..Len(pats) :
                     /\ StartsWithAt(s, pats[j], p)
                     /\ \A h \in 1..(j - 1) : ~StartsWithAt(s, pats[h], p)
    IN IF found = {} THEN s
       ELSE Substring(s, 0, p) \o to
            \o ReplaceAny(Substring(s, p + Len(pats[k]), Len(s)), pats, to)

\* s.replace(/from/g, to) for a pattern that is a plain, non-empty string.
ReplaceAll(s, from, to) == ReplaceAny(s, <<from>>, to)

\* The characters with codes 32 to 95 and 97 to 126.
AsciiLow ==
    " !\"#$%&'()*+,-./0123456789:;<=>?@ABCDEFGHIJKLMNOPQRSTUVWXYZ[\\]^_"

AsciiHigh == "abcdefghijklmnopqrstuvwxyz{|}~"

\* String.fromCharCode(n) for a line feed, a tab and the printable ASCII
\* characters but the grave accent; any other character, which the strings
\* of the model cannot hold, is written "?".
FromCharCode(n) ==
    IF n >= 32 /\ n <= 95 THEN SubSeq(AsciiLow, n - 31, n - 31)
    ELSE IF n >= 97 /\ n <= 126 THEN SubSeq(AsciiHigh, n - 96, n - 96)
    ELSE IF n = 10 THEN "\n" ELSE IF n = 9 THEN "\t" ELSE "?"

----------------------------------------------------------------------------
(* ICalParser: the text of one property (src/unnamed/part_004) *)

\* The unfold step without the g flag and the optional carriage return:
\* only the first line feed before a space is removed.
unfoldFirst(v) == ReplaceFirst(v, "\n ", "")

\* value.replace(/\r?\n[ \t]/g, ""): the unfold step.
unfold(v) == ReplaceAny(v, <<"\r\n ", "\r\n\t", "\n ", "\n\t">>, "")

\* The lookahead (?=\r?\n[A-Z-]+:) at position q of s.
NextPropertyAt(s, q) ==
    LET n == IF CharAt(s, q) = "\n" THEN q + 1
             ELSE IF CharAt(s, q) = "\r" /\ CharAt(s, q + 1) = "\n" THEN q + 2
             ELSE -1
        r == RunEnd(s, n, "name")
    IN n >= 0 /\ r > n /\ CharAt(s, r) = ":"

\* Where the lazy (.+?) that started before q stops: at the first position
\* from q on where the lookahead or the end of the input is found.
ValueEnd(s, q) ==
    IF q >= Len(s) THEN Len(s)
    ELSE Least({e \in q..Len(s) : e = Len(s) \/ NextPropertyAt(s, e)})

\* eventData.match(/NAME:(.+?)(?=\r?\n[A-Z-]+:|$)/s): the first group, Null
\* without a match.  The expression is not anchored to a line start.
TextProperty(eventData, name) ==
    LET p     == IndexOfFrom(eventData, name \o ":", 0)
        start == p + Len(name) + 1
    IN IF p = -1 \/ start >= Len(eventData) THEN Null
       ELSE Substring(eventData, start, ValueEnd(eventData, start + 1))

\* One attempt, at position p, of /NAME<params>:(.+?)(?:\r?\n|$)/: the
\* first group, Null when the attempt fails.  params names the optional
\* groups between the name and the colon: "" for none, "tzid" for
\* (?:;TZID=[^:]*)?, "date" for (?:;TZID=[^:]*)?(?:;VALUE=DATE)?, "any" for
\* (?:;[^:]*)?.
PropertyAt(s, p, name, params) ==
    LET q == p + Len(name)
    IN IF ~StartsWithAt(s, name, p) THEN Null
       ELSE
       With(IF params \in {"tzid", "date"} /\ StartsWithAt(s, ";TZID=", q)
            THEN IndexOfFrom(s, ":", q + 6)
            ELSE IF params = "date" /\ StartsWithAt(s, ";VALUE=DATE", q)
            THEN q + 11
            ELSE IF params = "any" /\ CharAt(s, q) = ";"
            THEN IndexOfFrom(s, ":", q + 1)
            ELSE q, LAMBDA colon :
       IF colon < 0 \/ CharAt(s, colon) # ":" THEN Null
       ELSE
       With(RunEnd(s, colon + 1, "line"), LAMBDA e :
            IF /\ e > colon + 1
               /\ \/ e = Len(s)
                  \/ CharAt(s, e) = "\n"
                  \/ CharAt(s, e) = "\r" /\ CharAt(s, e + 1) = "\n"
            THEN Substring(s, colon + 1, e)
            ELSE Null))

\* eventData.match(/(?:N1|N2)<params>:(.+?)(?:\r?\n|$)/): the first group of
\* the leftmost match, the names tried in order; Null without a match.  The
\* expression is not anchored to a line start.
LineProperty(s, names, params) ==
    With({p \in 0..(Len(s) - 1) :
             \E k \in 1..Len(names) : PropertyAt(s, p, names[k], params) # Null},
         LAMBDA found :
    IF found = {} THEN Null
    ELSE With(Least(found), LAMBDA p :
         With([j \in 1..Len(names) |-> PropertyAt(s, p, names[j], params)],
              LAMBDA values :
              values[CHOOSE j \in 1..Len(names) :
                         /\ values[j] # Null
                         /\ \A h \in 1..(j - 1) : values[h] = Null])))

\* ICalParser.extractEmail(field), for a field without line breaks.
extractEmail(field) ==
    LET p     == IndexOfFrom(field, "mailto:", 0)
        start == p + 7
        e     == RunEnd(field, start + 1, "address")
    IN IF p = -1 \/ start >= Len(field) THEN field
       ELSE Substring(field, start, e)

\* The end of the match of /ATTENDEE(?:;[^:]*)?:(.+?)(?:\r?\n)/ at position
\* p, -1 without a match: here a value has to be followed by a line break.
AttendeeEnd(s, p) ==
    LET q == p + Len("ATTENDEE")
    IN With(PropertyAt(s, p, "ATTENDEE", "any"), LAMBDA v :
       IF v = Null THEN -1
       ELSE
       With((IF CharAt(s, q) = ";" THEN IndexOfFrom(s, ":", q + 1) ELSE q)
                + 1 + Len(v), LAMBDA e :
            IF e >= Len(s) THEN -1
            ELSE IF CharAt(s, e) = "\r" THEN e + 2 ELSE e + 1))

\* The loop over that expression with the g flag from position from: the
\* e-mail of every match, in order.
RECURSIVE attendeesFrom(_, _)
attendeesFrom(s, from) ==
    With({p \in from..(Len(s) - 1) : AttendeeEnd(s, p) # -1}, LAMBDA found :
    IF found = {} THEN <<>>
    ELSE With(Least(found), LAMBDA p :
              <<extractEmail(Trim(PropertyAt(s, p, "ATTENDEE", "any")))>>
              \o attendeesFrom(s, AttendeeEnd(s, p))))

HexVal(c) ==
    IF IsDigit(c) THEN DigitVal(c)
    ELSE CASE c \in {"a", "A"} -> 10 [] c \in {"b", "B"} -> 11
           [] c \in {"c", "C"} -> 12 [] c \in {"d", "D"} -> 13
           [] c \in {"e", "E"} -> 14 [] c \in {"f", "F"} -> 15

\* parseInt(s, 16) of a run of hexadecimal digits.
RECURSIVE ParseHex(_, _)
ParseHex(s, acc) ==
    IF s = "" THEN acc ELSE ParseHex(Tail(s), acc * 16 + HexVal(Head(s)))

\* The end of the match of /&#(\d+);/ at position p, -1 without a match.
DecimalEntityEnd(s, p) ==
    LET e == RunEnd(s, p + 2, "digit")
    IN IF StartsWithAt(s, "&#", p) /\ e > p + 2 /\ CharAt(s, e) = ";"
       THEN e + 1 ELSE -1

\* text.replace(/&#(\d+);/g, (_, code) => String.fromCharCode(parseInt(code, 10)))
RECURSIVE DecodeDecimalEntities(_)
DecodeDecimalEntities(s) ==
    LET found == {p \in 0..(Len(s) - 1) : DecimalEntityEnd(s, p) # -1}
        p     == Least(found)
        e     == DecimalEntityEnd(s, p)
    IN IF found = {} THEN s
       ELSE Substring(s, 0, p)
            \o FromCharCode(ParseInt(Substring(s, p + 2, e - 1)))
            \o DecodeDecimalEntities(Substring(s, e, Len(s)))

\* The end of the match of /&#x([0-9a-fA-F]+);/ at position p, -1 without.
HexEntityEnd(s, p) ==
    LET e == RunEnd(s, p + 3, "hex")
    IN IF StartsWithAt(s, "&#x", p) /\ e > p + 3 /\ CharAt(s, e) = ";"
       THEN e + 1 ELSE -1

\* text.replace(/&#x([0-9a-fA-F]+);/g, (_, code) => String.fromCharCode(parseInt(code, 16)))
RECURSIVE DecodeHexEntities(_)
DecodeHexEntities(s) ==
    LET found == {p \in 0..(Len(s) - 1) : HexEntityEnd(s, p) # -1}
        p     == Least(found)
        e     == HexEntityEnd(s, p)
    IN IF found = {} THEN s
       ELSE Substring(s, 0, p)
            \o FromCharCode(ParseHex(Substring(s, p + 3, e - 1), 0))
            \o DecodeHexEntities(Substring(s, e, Len(s)))

\* The en dash and the em dash, which the strings of the model cannot hold,
\* written as two ASCII characters that no input of the model contains.
EnDash == "~"

EmDash == "^"

\* The chain of named-entity replacements, in the order of the code.
DecodeNamedEntities(s) ==
    LET a == ReplaceAll(s, "&amp;", "&")
        b == ReplaceAll(a, "&lt;", "<")
        c == ReplaceAll(b, "&gt;", ">")
        d == ReplaceAll(c, "&quot;", "\"")
        e == ReplaceAll(d, "&#39;", "'")
        f == ReplaceAll(e, "&nbsp;", " ")
        g == ReplaceAll(f, "&ndash;", EnDash)
        h == ReplaceAll(g, "&mdash;", EmDash)
        i == ReplaceAll(h, "&ldquo;", "\"")
        j == ReplaceAll(i, "&rdquo;", "\"")
        k == ReplaceAll(j, "&lsquo;", "'")
    IN ReplaceAll(k, "&rsquo;", "'")

DecodeEntities(s) ==
    DecodeNamedEntities(DecodeHexEntities(DecodeDecimalEntities(s)))

\* The placeholder of an escaped backslash, its two NUL characters written
\* as form feeds, which no input of the model contains.
Placeholder == "\fBACKSLASH\f"

\* text.replace(/<[^>]*>/g, "")
RECURSIVE StripTags(_)
StripTags(s) ==
    LET open  == IndexOfFrom(s, "<", 0)
        close == IndexOfFrom(s, ">", open + 1)
    IN IF open = -1 \/ close = -1 THEN s
       ELSE Substring(s, 0, open) \o StripTags(Substring(s, close + 1, Len(s)))

\* text.replace(/\n{3,}/g, "\n\n")
RECURSIVE SqueezeNewlines(_)
SqueezeNewlines(s) ==
    LET p == IndexOfFrom(s, "\n\n\n", 0)
        e == RunEnd(s, p, "newline")
    IN IF p = -1 THEN s
       ELSE Substring(s, 0, p) \o "\n\n" \o SqueezeNewlines(Substring(s, e, Len(s)))

\* ICalParser.decodeText(text)
decodeText(text) ==
    LET a == ReplaceAll(text, "\\\\", Placeholder)
        b == ReplaceAny(a, <<"\\n", "\\N">>, "\n")
        c == ReplaceAll(b, "\\r", "\r")
        d == ReplaceAll(c, "\\,", ",")
        e == ReplaceAll(d, "\\;", ";")
        f == ReplaceAll(e, "\\:", ":")
        g == StripTags(f)
        h == ReplaceAll(g, Placeholder, "\\")
    IN Trim(SqueezeNewlines(h))

\* title.replace(/\s+\d+$/, "")
StripTrailingNumber(s) ==
    LET d == RunStart(s, Len(s), "digit")
        w == RunStart(s, d, "space")
    IN IF d < Len(s) /\ w < d THEN Substring(s, 0, w) ELSE s

----------------------------------------------------------------------------
(* ICalParser: one event (src/unnamed/part_004) *)

Keywords ==
    << "due", "assignment", "homework", "test", "quiz", "exam", "project",
       "paper", "lab", "presentation", "read", "watch", "complete", "finish",
       "study" >>

\* /\b(due|assignment|...|study)\b/i.test(title)
hasKeywords(title) ==
    LET t == ToLowerCase(title)
    IN \E p \in 0..(Len(t) - 1), k \in 1..Len(Keywords) :
          /\ StartsWithAt(t, Keywords[k], p)
          /\ ~IsWordChar(CharAt(t, p - 1))
          /\ ~IsWordChar(CharAt(t, p + Len(Keywords[k])))

\* [A-Z][A-Z0-9\s:\/]+-\s*[A-Z0-9]+: under the i flag, from position i.  No
\* character class of the expression overlaps the character that follows
\* it, so every run is the longest one.
ClassPrefixAt(t, i) ==
    LET r1 == RunEnd(t, i + 1, "prefix")
        k  == RunEnd(t, r1 + 1, "space")
        r2 == RunEnd(t, k, "alnum")
    IN /\ IsUpper(CharAt(t, i)) \/ IsLower(CharAt(t, i))
       /\ r1 > i + 1 /\ CharAt(t, r1) = "-"
       /\ r2 > k /\ CharAt(t, r2) = ":"

\* /^(?:ADV\.\s+)?[A-Z][A-Z0-9\s:\/]+-\s*[A-Z0-9]+:/i.test(title)
hasClassPrefix(title) ==
    LET adv == RunEnd(title, 4, "space")
    IN \/ /\ StartsWithAt(ToLowerCase(title), "adv.", 0)
          /\ adv > 4
          /\ ClassPrefixAt(title, adv)
       \/ ClassPrefixAt(title, 0)

\* [ap]\.?m\.? under the i flag at position i: the end of the match, -1
\* when there is none.
MeridiemEnd(t, i) ==
    LET m == IF CharAt(t, i + 1) = "." /\ CharAt(t, i + 2) \in {"m", "M"}
             THEN i + 2 ELSE i + 1
    IN IF CharAt(t, i) \in {"a", "A", "p", "P"} /\ CharAt(t, m) \in {"m", "M"}
       THEN (IF CharAt(t, m + 1) = "." THEN m + 2 ELSE m + 1)
       ELSE -1

\* \d{n}:\d{2}\s*[ap]\.?m\.? at position p: the end of the match or -1.
ClockEnd(t, p, n) ==
    IF /\ \A i \in p..(p + n - 1) : IsDigit(CharAt(t, i))
       /\ CharAt(t, p + n) = ":"
       /\ IsDigit(CharAt(t, p + n + 1)) /\ IsDigit(CharAt(t, p + n + 2))
    THEN MeridiemEnd(t, RunEnd(t, p + n + 3, "space"))
    ELSE -1

\* \d{n}\s*[ap]\.?m\.? at position p: the end of the match or -1.
HourEnd(t, p, n) ==
    IF \A i \in p..(p + n - 1) : IsDigit(CharAt(t, i))
    THEN MeridiemEnd(t, RunEnd(t, p + n, "space"))
    ELSE -1

\* The end of the match of
\* (\d{1,2}:\d{2}\s*[ap]\.?m\.?|\d{1,2}\s*[ap]\.?m\.?) at position p, the
\* alternatives in order and two digits tried before one; -1 without one.
TimeEnd(t, p) ==
    IF ClockEnd(t, p, 2) # -1 THEN ClockEnd(t, p, 2)
    ELSE IF ClockEnd(t, p, 1) # -1 THEN ClockEnd(t, p, 1)
    ELSE IF HourEnd(t, p, 2) # -1 THEN HourEnd(t, p, 2)
    ELSE HourEnd(t, p, 1)

\* title.match(/(\d{1,2}:\d{2}\s*[ap]\.?m\.?|\d{1,2}\s*[ap]\.?m\.?)/i): the
\* leftmost match, Null without one.
TimeMatch(t) ==
    LET found == {p \in 0..(Len(t) - 1) : TimeEnd(t, p) # -1}
        p     == Least(found)
    IN IF found = {} THEN Null ELSE Substring(t, p, TimeEnd(t, p))

\* What a formatted date shows: nothing (null), a text built from the
\* token's characters ("text"), the local wall-clock reading of the moment
\* at ("moment"), or Invalid Date ("invalid").
NoDisplay == [kind |-> "null", at |-> 0, text |-> ""]

DateText(text) == [kind |-> "text", at |-> 0, text |-> text]

\* date.toLocaleString(...) of the Date whose time value is at.
LocaleString(at) ==
    IF IsNaN(at) THEN [kind |-> "invalid", at |-> 0, text |-> ""]
    ELSE [kind |-> "moment", at |-> at, text |-> ""]

\* The reading of timeStr without the am/pm conversion: the digits before
\* the colon as the hour.
ExtractedClockUnmarked(timeStr) ==
    LET n == Filter(ToLowerCase(timeStr), "nonspace")
        h == IF IsDigit(CharAt(n, 1)) THEN 2 ELSE 1
    IN [matched |-> TRUE, hours |-> ParseInt(Substring(n, 0, h)), minutes |-> 0]

\* The hour of timeStr on the 24-hour clock, as
\* formatDateTimeWithExtractedTime computes it: normalizedTime, isPM, isAM,
\* the match of /(\d{1,2}):?(\d{2})?/ and the conversion.  matched is
\* whether the expression matched.
ExtractedClock(timeStr) ==
    With(ReplaceFirst(Filter(ToLowerCase(timeStr), "nonspace"), ".", ""),
         LAMBDA normalizedTime :
    With(RunEnd(normalizedTime, 0, "nondigit"), LAMBDA p :
    With(IF IsDigit(CharAt(normalizedTime, p + 1)) THEN p + 2 ELSE p + 1,
         LAMBDA h :
    With(IF CharAt(normalizedTime, h) = ":" THEN h + 1 ELSE h, LAMBDA m :
    With(ParseInt(Substring(normalizedTime, p, h)), LAMBDA hours :
    LET isPM == IndexOfFrom(normalizedTime, "pm", 0) # -1
        isAM == IndexOfFrom(normalizedTime, "am", 0) # -1
        has2 == IsDigit(CharAt(normalizedTime, m)) /\ IsDigit(CharAt(normalizedTime, m + 1))
    IN IF p >= Len(normalizedTime) THEN [matched |-> FALSE, hours |-> 0, minutes |-> 0]
       ELSE [matched |-> TRUE,
             hours   |-> IF isPM /\ hours # 12 THEN hours + 12
                         ELSE IF isAM /\ hours = 12 THEN 0
                         ELSE hours,
             minutes |-> IF has2 THEN ParseInt(Substring(normalizedTime, m, m + 2))
                         ELSE 0])))))

\* ICalParser.formatDateTimeWithExtractedTime(dateStr, timeStr), in a zone
\* off minutes east.
formatDateTimeWithExtractedTime(dateStr, timeStr, off) ==
    IF Falsy(dateStr) \/ Len(dateStr) < 8 THEN NoDisplay
    ELSE LET year  == ParseInt(Substring(dateStr, 0, 4))
             month == Minus(ParseInt(Substring(dateStr, 4, 6)), 1)
             day   == ParseInt(Substring(dateStr, 6, 8))
         IN With(ExtractedClock(timeStr), LAMBDA clock :
            IF ~clock.matched
            THEN LocaleString(DateLocal(year, month, day, 0, 0, 0, off))
            ELSE LocaleString(DateLocal(year, month, day, clock.hours,
                                        clock.minutes, 0, off)))

\* s is n decimal digits with a value in lo..hi.
Field(s, n, lo, hi) ==
    /\ Len(s) = n
    /\ \A i \in 1..n : IsDigit(SubSeq(s, i, i))
    /\ ParseInt(s) >= lo /\ ParseInt(s) <= hi

\* new Date(`${year}-${month}-${day}T${hour}:${minute}:${second}Z`).getTime()
\* in seconds: the date-time form of ECMAScript, always read as UTC; NaN
\* when a field has the wrong width or is out of range.
DateParseUTC(year, month, day, hour, minute, second) ==
    IF /\ Field(year, 4, 0, 9999) /\ Field(month, 2, 1, 12)
       /\ Field(day, 2, 1, 31) /\ Field(hour, 2, 0, 23)
       /\ Field(minute, 2, 0, 59) /\ Field(second, 2, 0, 59)
    THEN DaysFromCivil(ParseInt(year), ParseInt(month), ParseInt(day)) * 86400
         + ParseInt(hour) * 3600 + ParseInt(minute) * 60 + ParseInt(second)
    ELSE NaN

\* ICalParser.formatDateTime(dateTime)
formatDateTime(dateTime) ==
    IF Falsy(dateTime) THEN NoDisplay
    ELSE IF ~Includes(dateTime, "T")
    THEN DateText(Substring(dateTime, 0, 4) \o "-" \o Substring(dateTime, 4, 6)
                  \o "-" \o Substring(dateTime, 6, 8))
    ELSE LocaleString(DateParseUTC(Substring(dateTime, 0, 4),
                                   Substring(dateTime, 4, 6),
                                   Substring(dateTime, 6, 8),
                                   Substring(dateTime, 9, 11),
                                   Substring(dateTime, 11, 13),
                                   Substring(dateTime, 13, 15)))

\* trim() of a match, Null without a match.
Trimmed(v) == IF v = Null THEN Null ELSE Trim(v)

\* parseInt(match[1].trim(), 10) of a match; set is FALSE without a match.
NumberOf(v) ==
    IF v = Null THEN [set |-> FALSE, value |-> 0]
    ELSE [set |-> TRUE, value |-> ParseInt(Trim(v))]

\* The title of the event: the SUMMARY value unfolded, its entities
\* decoded, trimmed, decoded, and its trailing number removed.
TitleOf(eventData) ==
    LET raw == TextProperty(eventData, "SUMMARY")
    IN IF raw = Null THEN "Untitled Event"
       ELSE Trim(StripTrailingNumber(
                decodeText(Trim(DecodeEntities(unfold(raw))))))

\* ICalParser.parseEvent(eventData), in a zone off minutes east.  A property
\* the code leaves undefined is Null, FALSE for a flag; isCompleted is never
\* set.
parseEvent(eventData, off) ==
    With(TitleOf(eventData), LAMBDA title :
    With(hasKeywords(title) \/ hasClassPrefix(title), LAMBDA isAssignment :
    With(IF isAssignment /\ title # "" THEN TimeMatch(title) ELSE Null,
         LAMBDA extractedTime :
    With(TextProperty(eventData, "DESCRIPTION"), LAMBDA description :
    With(TextProperty(eventData, "LOCATION"), LAMBDA location :
    With(Trimmed(LineProperty(eventData, <<"DTSTART">>, "date")), LAMBDA startRaw :
    With(LineProperty(eventData, <<"DUE", "DTDUE">>, "tzid"), LAMBDA due :
    With(due = Null /\ isAssignment /\ ~Falsy(startRaw), LAMBDA fallback :
    With(Trimmed(LineProperty(eventData, <<"DTEND">>, "date")), LAMBDA endRaw :
    With(Trimmed(LineProperty(eventData, <<"COMPLETED">>, "tzid")),
         LAMBDA completedRaw :
    With(LineProperty(eventData, <<"ORGANIZER">>, "any"), LAMBDA organizer :
       [title         |-> title,
        isAssignment  |-> isAssignment,
        extractedTime |-> extractedTime,
        description   |-> IF description = Null THEN Null
                          ELSE decodeText(Trim(DecodeEntities(unfold(description)))),
        location      |-> IF location = Null THEN Null
                          ELSE decodeText(Trim(unfold(location))),
        startRaw      |-> startRaw,
        startTime     |-> formatDateTime(startRaw),
        dueRaw        |-> IF due # Null THEN Trim(due)
                          ELSE IF fallback THEN startRaw ELSE Null,
        dueTime       |-> IF due # Null THEN formatDateTime(Trim(due))
                          ELSE IF fallback /\ ~Falsy(extractedTime)
                          THEN formatDateTimeWithExtractedTime(
                                   Substring(Filter(Str(startRaw), "digit"), 0, 8),
                                   extractedTime, off)
                          ELSE IF fallback THEN formatDateTime(startRaw)
                          ELSE NoDisplay,
        trinityFormat |-> fallback,
        endRaw        |-> endRaw,
        endTime       |-> formatDateTime(endRaw),
        uid           |-> Trimmed(LineProperty(eventData, <<"UID">>, "")),
        completedRaw  |-> completedRaw,
        completedTime |-> formatDateTime(completedRaw),
        status        |-> Trimmed(LineProperty(eventData, <<"STATUS">>, "")),
        rrule         |-> Trimmed(LineProperty(eventData, <<"RRULE">>, "")),
        priority      |-> NumberOf(LineProperty(eventData, <<"PRIORITY">>, "")),
        percentComplete |->
            NumberOf(LineProperty(eventData, <<"PERCENT-COMPLETE">>, "")),
        organizer     |-> IF organizer = Null THEN Null
                          ELSE extractEmail(Trim(organizer)),
        attendees     |-> attendeesFrom(eventData, 0),
        isCompleted   |-> FALSE])))))))))))

----------------------------------------------------------------------------
(* ICalParser: the feed (src/unnamed/part_004) *)

\* The first groups of the matches of /BEGIN:VEVENT([\s\S]*?)END:VEVENT/g
\* in icalContent from position from, in order.
RECURSIVE eventBlocks(_, _)
eventBlocks(icalContent, from) ==
    LET b == IndexOfFrom(icalContent, "BEGIN:VEVENT", from)
        e == IndexOfFrom(icalContent, "END:VEVENT", b + 12)
    IN IF b = -1 \/ e = -1 THEN <<>>
       ELSE <<Substring(icalContent, b + 12, e)>>
            \o eventBlocks(icalContent, e + 10)

\* parseICalContent that returns the events latest block first.
parseICalContentLatestFirst(icalContent, off) ==
    LET blocks == eventBlocks(icalContent, 0)
    IN [i \in 1..Len(blocks) |-> parseEvent(blocks[Len(blocks) + 1 - i], off)]

\* parseICalContent that gives an event without a UID one made from the
\* zone of the host.
parseICalContentStamped(icalContent, off) ==
    LET blocks == eventBlocks(icalContent, 0)
    IN [i \in 1..Len(blocks) |->
           [parseEvent(blocks[i], off) EXCEPT
               !.uid = IF Falsy(@) THEN "event-" \o ToString(off) ELSE @]]

\* ICalParser.parseICalContent(icalContent), in a zone off minutes east.
parseICalContent(icalContent, off) ==
    LET blocks == eventBlocks(icalContent, 0)
    IN [i \in 1..Len(blocks) |-> parseEvent(blocks[i], off)]

----------------------------------------------------------------------------
(* ThemeManager (src/unnamed/part_003, constants of src/unnamed/part_001) *)

THEME_NAMES ==
    {"theme-fern", "theme-ocean", "theme-sunset", "theme-slate", "theme-orchid",
     "theme-midnight", "theme-serenity"}

\* No Serenity CSS variable is set on the root element.
NoOverrides == [base |-> Null, tint |-> Null, darkness |-> 0]

\* The state after new ThemeManager() in a fresh document: the object's
\* fields, the theme class and the animation class of document.body, the
\* Serenity CSS variables set on the root element (overrides: the palette,
\* or NoOverrides), the timers that are pending, the applySerenityTheme call that
\* is suspended on its weather lookup (awaiting: its phase, or Null), and
\* whether the host has navigator.geolocation.
NewThemeManager ==
    [currentTheme |-> "fern", serenityWeatherCache |-> Null,
     serenityRefreshTimer |-> Null, serenityApplying |-> FALSE,
     bodyTheme |-> Null, animating |-> FALSE, animationTimers |-> 0,
     overrides |-> NoOverrides, refreshPending |-> FALSE, awaiting |-> Null,
     geolocation |-> TRUE]

\* ThemeManager.getSerenityPhase(date), from date.getHours().
getSerenityPhase(hour) ==
    IF hour >= 5 /\ hour < 8 THEN "dawn"
    ELSE IF hour >= 8 /\ hour < 11 THEN "morning"
    ELSE IF hour >= 11 /\ hour < 16 THEN "day"
    ELSE IF hour >= 16 /\ hour < 19 THEN "golden"
    ELSE IF hour >= 19 /\ hour < 22 THEN "evening"
    ELSE "night"

\* ThemeManager.buildSerenityPalette(phase, weather): the base palette, the
\* weather tint blended into it and the darkness applied to it, in
\* hundredths; the colours follow from the three.
buildSerenityPalette(phase, condition) ==
    LET gloomy == condition \in {"storm", "rain", "sleet", "snow", "clouds", "fog"}
        dark   == CASE phase = "night" -> 60 [] phase = "evening" -> 35
                    [] phase = "golden" -> 20 [] phase = "dawn" -> 15
                    [] OTHER -> 0
    IN [base |-> phase,
        tint |-> CASE condition \in {"rain", "sleet"} -> "rain"
                   [] condition = "storm" -> "storm"
                   [] condition = "snow" -> "snow"
                   [] condition \in {"clouds", "fog"} -> "clouds"
                   [] OTHER -> "none",
        darkness |-> IF gloomy THEN (IF dark + 15 < 65 THEN dark + 15 ELSE 65)
                     ELSE dark]

\* ThemeManager.setSerenityVariables(palette)
setSerenityVariables(tm, palette) == [tm EXCEPT !.overrides = palette]

\* ThemeManager.scheduleSerenityRefresh(now): the timer of the field is
\* cleared and a new one is started.
scheduleSerenityRefresh(tm) ==
    [tm EXCEPT !.serenityRefreshTimer = "timer", !.refreshPending = TRUE]

\* ThemeManager.clearSerenityOverrides()
clearSerenityOverrides(tm) ==
    [tm EXCEPT !.refreshPending = IF tm.serenityRefreshTimer # Null THEN FALSE ELSE @,
               !.serenityRefreshTimer = Null,
               !.serenityWeatherCache = Null,
               !.overrides = NoOverrides]

\* applySerenityTheme from the point where getSerenityWeather has returned
\* the snapshot with this condition (and has cached it) to the end of the
\* finally block.
serenityResumed(tm, condition) ==
    [scheduleSerenityRefresh(
         setSerenityVariables(tm, buildSerenityPalette(tm.awaiting, condition)))
       EXCEPT !.serenityWeatherCache = condition,
              !.serenityApplying = FALSE,
              !.awaiting = Null]

\* ThemeManager.applySerenityTheme() called at this hour, up to the point
\* where the task that called it gives control back: with a cached snapshot
\* younger than 30 minutes (fresh), or without navigator.geolocation, the
\* call runs to its end in the microtasks of that task; otherwise it is
\* left suspended on the lookup.
applySerenityTheme(tm, hour, fresh) ==
    IF tm.serenityApplying \/ tm.currentTheme # "serenity" THEN tm
    ELSE IF tm.serenityWeatherCache # Null /\ fresh
    THEN serenityResumed([tm EXCEPT !.awaiting = getSerenityPhase(hour)],
                         tm.serenityWeatherCache)
    ELSE IF ~tm.geolocation
    THEN serenityResumed([tm EXCEPT !.awaiting = getSerenityPhase(hour)], "clear")
    ELSE [tm EXCEPT !.serenityApplying = TRUE, !.awaiting = getSerenityPhase(hour)]

\* ThemeManager.applyTheme(theme), with the applySerenityTheme call it makes.
applyTheme(tm, t, hour, fresh) ==
    LET selectedTheme == IF t = Null \/ t = "" THEN "fern" ELSE t
        themeClass    == "theme-" \o selectedTheme
        cleared       == IF selectedTheme # "serenity"
                         THEN clearSerenityOverrides(tm) ELSE tm
        animated      == [cleared EXCEPT !.animating = TRUE,
                                         !.animationTimers = @ + 1]
    IN IF themeClass \notin THEME_NAMES
       THEN [animated EXCEPT !.bodyTheme = "theme-fern", !.currentTheme = "fern"]
       ELSE IF themeClass = "theme-serenity"
       THEN applySerenityTheme(
                [animated EXCEPT !.bodyTheme = "theme-serenity",
                                 !.currentTheme = "serenity"], hour, fresh)
       ELSE [animated EXCEPT !.bodyTheme = themeClass,
                             !.currentTheme = selectedTheme]

----------------------------------------------------------------------------
(* Program constants, in seconds *)

\* hrs * 60 * 60 * 1000 ms: one lead-time hour.
HourSec == 3600

\* delayInMinutes: 0.1 of the fire-now branch.
ImmediateDelay == 6

\* The floor 0.1 of Math.max((targetTime - now) / (1000 * 60), 0.1).
MinDelay == 6

\* delayInMinutes: 60 of the snooze branch.
SnoozeDelay == 3600

\* The lead times used when the settings give none.
DefaultIntervals == <<24, 16, 4, 1>>

----------------------------------------------------------------------------
(* Bounds and inputs of the model *)

\* Storage writes that may be in flight at once.
MaxPending == 2

\* notified[id] counts up to this value and stays there.
MaxNotify == 2

\* Notification buttons the user presses in one run.
MaxClicks == 1

\* Handlers that start, in one run, before the write of another has landed.
MaxOverlaps == 1

\* 2024-05-10 12:00:00 UTC, the due moment of the first assignment.
Due1 == ICalDateToTimestamp("20240510T120000Z", 0)

\* The instants at which the clock is sampled.
NowPoints ==
    { Due1 - 20 * HourSec, Due1 - 16 * HourSec - 3, Due1 - 4 * HourSec,
      Due1 + HourSec }

Event(uid, title, dueRaw, startRaw, isAssignment, isCompleted) ==
    [uid |-> uid, title |-> title, dueRaw |-> dueRaw, startRaw |-> startRaw,
     isAssignment |-> isAssignment, isCompleted |-> isCompleted,
     dueTime |-> Or(dueRaw, startRaw)]

Homework == Event("hw1", "Homework 1", "20240510T120000Z", "20240510T120000Z", TRUE, FALSE)
Quiz     == Event(Null, "Quiz", "20240510", "20240510", TRUE, FALSE)
Essay    == Event("essay", "Essay due", "20240510T130000", Null, TRUE, FALSE)
Meeting  == Event("mtg", "Club meeting", Null, "20240510T150000Z", FALSE, FALSE)
Vague    == Event("vague", "Project TBA", "someday!", Null, TRUE, FALSE)
Tbd      == Event("tbd", "Lab report", "TBD", Null, TRUE, FALSE)
Short    == Event("short", "Read ch. 2", "2024", Null, TRUE, FALSE)
NoDate   == Event("nodate", "Study", Null, Null, TRUE, FALSE)
Done     == Event("done", "Paper", "20240510T120000Z", Null, TRUE, TRUE)
Ticked   == Event("ticked", "Test", "20240510T120000Z", Null, TRUE, FALSE)

\* reminderSettings as stored: present is FALSE when the key is missing,
\* isArray is Array.isArray(settings.intervals).
Settings(present, enabled, isArray, intervals) ==
    [present |-> present, enabled |-> enabled, isArray |-> isArray,
     intervals |-> intervals]

NoSettings == Settings(FALSE, FALSE, FALSE, <<>>)

\* What the popup has saved (the parsed events, the completed identities and
\* the reminder settings) and the host's time zone, minutes east of UTC.
Scenarios ==
    { [events |-> <<Homework, Ticked>>, completedAssignments |-> {"ticked"},
       reminderSettings |-> NoSettings, tz |-> 0],
      [events |-> <<Meeting, Quiz, Essay>>, completedAssignments |-> {},
       reminderSettings |-> Settings(TRUE, TRUE, TRUE, <<16>>), tz |-> -240],
      [events |-> <<Vague, Short, NoDate>>, completedAssignments |-> {},
       reminderSettings |-> Settings(TRUE, TRUE, FALSE, <<>>), tz |-> 0],
      [events |-> <<Done, Tbd>>, completedAssignments |-> {},
       reminderSettings |-> Settings(TRUE, TRUE, TRUE, <<>>), tz |-> 60],
      [events |-> <<Homework>>, completedAssignments |-> {},
       reminderSettings |-> Settings(TRUE, FALSE, TRUE, <<24, 1>>), tz |-> 0] }

----------------------------------------------------------------------------
(* Objects used as maps *)

EmptyMap == [x \in {} |-> 0]

\* obj[k] = v
Put(f, k, v) == [x \in DOMAIN f \cup {k} |-> IF x = k THEN v ELSE f[x]]

\* delete obj[k]
Remove(f, k) == [x \in DOMAIN f \ {k} |-> f[x]]

----------------------------------------------------------------------------
(* The periodic check: the 'checkUpcomingAssignments' listener *)

\* data.reminderSettings || { enabled: true, intervals: [24, 16, 4, 1] }
SettingsOrDefault(s) ==
    IF s.present THEN s ELSE Settings(TRUE, TRUE, TRUE, DefaultIntervals)

\* IntervalsOf that takes settings.intervals as stored.
IntervalsOfAsStored(settings) == settings.intervals

\* Array.isArray(settings.intervals) && settings.intervals.length > 0
\*   ? settings.intervals : [24, 16, 4, 1]
IntervalsOf(settings) ==
    IF settings.isArray /\ Len(settings.intervals) > 0
    THEN settings.intervals ELSE DefaultIntervals

\* event.uid || `${event.title}_${event.dueRaw || event.startRaw}`
EventIdOf(event) ==
    Or(event.uid, Str(event.title) \o "_" \o Str(Or(event.dueRaw, event.startRaw)))

\* `reminder_${eventId}_${hrs}h`
ReminderId(eventId, hrs) == "reminder_" \o eventId \o "_" \o ToString(hrs) \o "h"

ReminderEntry(event, eventId, hrs) ==
    [eventId |-> eventId, title |-> event.title,
     message |-> event.title \o " is due in " \o ToString(hrs) \o " hours!",
     dueTime |-> event.dueTime, intervalHours |-> hrs]

\* chrome.alarms.create(name, { delayInMinutes }) at time t: an alarm of the
\* same name is replaced; a delay that is not a finite number is rejected
\* and no alarm is created.
CreateAlarm(acc, name, delay, t, by) ==
    IF IsNaN(delay) THEN acc
    ELSE [acc EXCEPT !.alarms = Put(@, name, [when |-> t + delay, by |-> by]),
                     !.created = Put(@, name, delay)]

\* FireNow without the reminderHistory lookup: a delivered reminder is armed
\* again by the next check.
FireNowForgetful(acc, event, eventId, hrs, t) ==
    LET reminderId == ReminderId(eventId, hrs)
    IN CreateAlarm(
         [acc EXCEPT !.reminders = Put(@, reminderId, ReminderEntry(event, eventId, hrs)),
                     !.reminderHistory = @ \cup {reminderId}],
         reminderId, ImmediateDelay, t, "check")

\* FireNow that arms the alarm and leaves reminderHistory alone.
FireNowUnmarked(acc, event, eventId, hrs, t) ==
    LET reminderId == ReminderId(eventId, hrs)
    IN IF reminderId \in acc.reminderHistory THEN acc
       ELSE CreateAlarm(
              [acc EXCEPT !.reminders = Put(@, reminderId, ReminderEntry(event, eventId, hrs))],
              reminderId, ImmediateDelay, t, "check")

\* The past-target branch (targetTime <= now).
FireNow(acc, event, eventId, hrs, t) ==
    LET reminderId == ReminderId(eventId, hrs)
    IN IF reminderId \in acc.reminderHistory THEN acc
       ELSE CreateAlarm(
              [acc EXCEPT !.reminders = Put(@, reminderId, ReminderEntry(event, eventId, hrs)),
                          !.reminderHistory = @ \cup {reminderId}],
              reminderId, ImmediateDelay, t, "check")

\* ScheduleFuture that looks the id up in reminderHistory only, not in
\* reminders: a reminder already scheduled is scheduled again.
ScheduleFutureAgain(acc, event, eventId, hrs, targetTime, t) ==
    LET reminderId == ReminderId(eventId, hrs)
    IN IF reminderId \in acc.reminderHistory
       THEN acc
       ELSE LET delay == MathMax(Minus(targetTime, t), MinDelay)
            IN CreateAlarm(
                 [acc EXCEPT !.reminders = Put(@, reminderId, ReminderEntry(event, eventId, hrs))],
                 reminderId, delay, t, "check")

\* ScheduleFuture without the floor on the delay.
ScheduleFutureUnclamped(acc, event, eventId, hrs, targetTime, t) ==
    LET reminderId == ReminderId(eventId, hrs)
    IN IF reminderId \in DOMAIN acc.reminders \/ reminderId \in acc.reminderHistory
       THEN acc
       ELSE CreateAlarm(
              [acc EXCEPT !.reminders = Put(@, reminderId, ReminderEntry(event, eventId, hrs))],
              reminderId, Minus(targetTime, t), t, "check")

\* The future branch.
ScheduleFuture(acc, event, eventId, hrs, targetTime, t) ==
    LET reminderId == ReminderId(eventId, hrs)
    IN IF reminderId \in DOMAIN acc.reminders \/ reminderId \in acc.reminderHistory
       THEN acc
       ELSE LET delay == MathMax(Minus(targetTime, t), MinDelay)
            IN CreateAlarm(
                 [acc EXCEPT !.reminders = Put(@, reminderId, ReminderEntry(event, eventId, hrs))],
                 reminderId, delay, t, "check")

\* CheckInterval with targetTime < now for targetTime <= now.
CheckIntervalStrict(acc, event, eventId, dueTimestamp, hrs, t) ==
    LET intervalMs == Times(hrs, HourSec)
        targetTime == Minus(dueTimestamp, intervalMs)
    IN IF Leq(targetTime, t) /\ targetTime # t
       THEN FireNow(acc, event, eventId, hrs, t)
       ELSE ScheduleFuture(acc, event, eventId, hrs, targetTime, t)

\* The body of intervals.forEach for one hrs.
CheckInterval(acc, event, eventId, dueTimestamp, hrs, t) ==
    LET intervalMs == Times(hrs, HourSec)
        targetTime == Minus(dueTimestamp, intervalMs)
    IN IF Leq(targetTime, t)
       THEN FireNow(acc, event, eventId, hrs, t)
       ELSE ScheduleFuture(acc, event, eventId, hrs, targetTime, t)

RECURSIVE CheckIntervals(_, _, _, _, _, _, _)
CheckIntervals(acc, event, eventId, dueTimestamp, intervals, i, t) ==
    IF i > Len(intervals) THEN acc
    ELSE CheckIntervals(
           CheckInterval(acc, event, eventId, dueTimestamp, intervals[i], t),
           event, eventId, dueTimestamp, intervals, i + 1, t)

\* CheckEvent without the completedAssignments lookup.
CheckEventIgnoringCompleted(acc, event, completedAssignments, intervals, t, off) ==
    IF ~event.isAssignment \/ event.isCompleted THEN acc
    ELSE LET eventId == EventIdOf(event)
             dueTimestamp == ICalDateToTimestamp(Or(event.dueRaw, event.startRaw), off)
             timeUntilDue == Minus(dueTimestamp, t)
         IN IF Leq(timeUntilDue, 0) THEN acc
            ELSE CheckIntervals(acc, event, eventId, dueTimestamp, intervals, 1, t)

\* The body of events.forEach for one event.
CheckEvent(acc, event, completedAssignments, intervals, t, off) ==
    IF ~event.isAssignment \/ event.isCompleted THEN acc
    ELSE LET eventId == EventIdOf(event)
         IN IF eventId \in completedAssignments THEN acc
            ELSE LET dueTimestamp == ICalDateToTimestamp(Or(event.dueRaw, event.startRaw), off)
                     timeUntilDue == Minus(dueTimestamp, t)
                 IN IF Leq(timeUntilDue, 0) THEN acc
                    ELSE CheckIntervals(acc, event, eventId, dueTimestamp, intervals, 1, t)

RECURSIVE CheckEvents(_, _, _, _, _, _, _)
CheckEvents(acc, events, i, completedAssignments, intervals, t, off) ==
    IF i > Len(events) THEN acc
    ELSE CheckEvents(
           CheckEvent(acc, events[i], completedAssignments, intervals, t, off),
           events, i + 1, completedAssignments, intervals, t, off)

\* What one run of the check computes from the storage it read (data), the
\* alarms al, the clock t and the zone off: the reminders and reminderHistory
\* it writes, the alarms after it, and the alarms it created (name -> delay).
CheckCompute(data, al, t, off) ==
    CheckEvents(
      [reminders |-> data.reminders, reminderHistory |-> data.reminderHistory,
       alarms |-> al, created |-> EmptyMap],
      data.events, 1, data.completedAssignments,
      IntervalsOf(SettingsOrDefault(data.reminderSettings)), t, off)

----------------------------------------------------------------------------
(* State *)

\* What chrome.storage.local holds under each key the handlers read: a value
\* of the shape the handlers write ("ok"), nothing ("missing"), or, for
\* events, a value that is truthy and not an array ("wrong": an object or a
\* string).
AllPresent ==
    [events |-> "ok", completedAssignments |-> "ok", reminders |-> "ok",
     reminderHistory |-> "ok"]

\* What a handler holds after chrome.storage.local.get and the defaults
\* data.events || [], data.completedAssignments || {}, data.reminders || {}
\* and data.reminderHistory || {}: a missing value is replaced by the empty
\* one, and any other value is kept.
Loaded(st) ==
    [st EXCEPT
       !.events = IF st.shape.events = "missing" THEN <<>> ELSE @,
       !.completedAssignments =
           IF st.shape.completedAssignments = "missing" THEN {} ELSE @,
       !.reminders = IF st.shape.reminders = "missing" THEN EmptyMap ELSE @,
       !.reminderHistory =
           IF st.shape.reminderHistory = "missing" THEN {} ELSE @]

\* A storage write in flight: chrome.storage.local.set(keys), and the
\* notification the handler clears once the write has resolved (or Null).
WriteReminders(reminders, reminderHistory) ==
    [keys |-> "reminders", reminders |-> reminders,
     reminderHistory |-> reminderHistory, completedAssignments |-> {},
     clear |-> Null]

WriteCompleted(completedAssignments, notificationId) ==
    [keys |-> "completedAssignments", reminders |-> EmptyMap,
     reminderHistory |-> {}, completedAssignments |-> completedAssignments,
     clear |-> notificationId]

\* The record of one handler run: the handler (op) and the alarm or
\* notification it ran for (id; by: who had created that alarm), the clock
\* and the storage it read, the reminders and reminderHistory it holds when
\* it ends, the alarms it created (name -> delay), whether it created a
\* notification (shown) and issued a storage write (wrote), and whether it
\* is a check run again on what the check before it left (rerun); threw is
\* whether the run ended in an uncaught error.
Ran(op, id, by, t, data, reminders, reminderHistory, created, shown, wrote, rerun) ==
    [op |-> op, id |-> id, by |-> by, now |-> t,
     read |-> [reminders |-> data.reminders,
               reminderHistory |-> data.reminderHistory,
               completedAssignments |-> data.completedAssignments,
               shape |-> data.shape],
     reminders |-> reminders, reminderHistory |-> reminderHistory,
     created |-> created, shown |-> shown, wrote |-> wrote, rerun |-> rerun,
     threw |-> FALSE]

\* The record of a run that ended in an uncaught TypeError.
Thrown(ran) == [ran EXCEPT !.threw = TRUE]

\* No handler has run at this instant yet.
NoRun ==
    Ran("none", "", "", 0,
        [reminders |-> EmptyMap, reminderHistory |-> {}, completedAssignments |-> {},
         shape |-> AllPresent],
        EmptyMap, {}, EmptyMap, FALSE, FALSE, FALSE)

Init ==
    /\ now \in NowPoints
    /\ \E sc \in Scenarios :
         /\ tz = sc.tz
         /\ storage = [events |-> sc.events,
                       completedAssignments |-> sc.completedAssignments,
                       reminderSettings |-> sc.reminderSettings,
                       reminders |-> EmptyMap, reminderHistory |-> {},
                       shape |-> AllPresent]
    /\ alarms = EmptyMap
    /\ displayed = {}
    /\ notified = EmptyMap
    /\ pending = <<>>
    /\ clicks = 0
    /\ overlaps = 0
    /\ theme = NewThemeManager
    /\ last = NoRun

----------------------------------------------------------------------------
(* Handlers *)

\* The 'checkUpcomingAssignments' listener, from the alarm to the call of
\* chrome.storage.local.set.
CheckUpcomingAssignments ==
    LET data     == Loaded(storage)
        settings == SettingsOrDefault(data.reminderSettings)
        r        == CheckCompute(data, alarms, now, tz)
        rerun    == /\ last.op = "check" /\ last.wrote /\ last.now = now
                    /\ pending = <<>>
                    /\ data.reminders = last.reminders
                    /\ data.reminderHistory = last.reminderHistory
                    /\ data.completedAssignments = last.read.completedAssignments
    IN IF ~settings.enabled
       THEN /\ last' = Ran("check", "", "", now, data, data.reminders,
                           data.reminderHistory, EmptyMap, FALSE, FALSE, FALSE)
            /\ UNCHANGED <<now, tz, storage, alarms, displayed, notified, pending, clicks, theme>>
       ELSE IF data.shape.events = "wrong"
       THEN \* events.forEach is not a function: the listener ends here
            /\ last' = Thrown(Ran("check", "", "", now, data, data.reminders,
                                  data.reminderHistory, EmptyMap, FALSE, FALSE, FALSE))
            /\ UNCHANGED <<now, tz, storage, alarms, displayed, notified, pending, clicks, theme>>
       ELSE /\ alarms' = r.alarms
            /\ pending' = Append(pending, WriteReminders(r.reminders, r.reminderHistory))
            /\ last' = Ran("check", "", "", now, data, r.reminders,
                           r.reminderHistory, r.created, FALSE, TRUE, rerun)
            /\ UNCHANGED <<now, tz, storage, displayed, notified, clicks, theme>>

\* chrome.notifications.create(id, ...): the count saturates at MaxNotify.
CountNotification(n, id) ==
    LET c == IF id \in DOMAIN n THEN n[id] ELSE 0
    IN Put(n, id, IF c < MaxNotify THEN c + 1 ELSE c)

\* ReminderFired that keeps the used entry in reminders.
ReminderFiredKeepingEntry(data, name) ==
    IF name \in DOMAIN data.reminders
    THEN [shown |-> TRUE, reminders |-> data.reminders,
          reminderHistory |-> data.reminderHistory \cup {name}]
    ELSE [shown |-> FALSE, reminders |-> data.reminders,
          reminderHistory |-> data.reminderHistory]

\* What the 'reminder_' listener does with the storage it read (data) for
\* the alarm called name: whether it creates the notification (shown), and
\* the reminders and reminderHistory it then writes.
ReminderFired(data, name) ==
    IF name \in DOMAIN data.reminders
    THEN [shown |-> TRUE, reminders |-> Remove(data.reminders, name),
          reminderHistory |-> data.reminderHistory \cup {name}]
    ELSE [shown |-> FALSE, reminders |-> data.reminders,
          reminderHistory |-> data.reminderHistory]

\* The 'reminder_' listener for the alarm called name, which is due: from
\* the alarm to the call of chrome.storage.local.set.
ReminderAlarm(name) ==
    /\ name \in DOMAIN alarms
    /\ alarms[name].when <= now
    /\ StartsWith(name, "reminder_")
    /\ alarms' = Remove(alarms, name)
    /\ LET data == Loaded(storage)
           r    == ReminderFired(data, name)
       IN /\ last' = Ran("alarm", name, alarms[name].by, now, data, r.reminders,
                         r.reminderHistory, EmptyMap, r.shown, r.shown, FALSE)
          /\ IF r.shown
             THEN /\ notified' = CountNotification(notified, name)
                  /\ displayed' = displayed \cup {name}
                  /\ pending' = Append(pending, WriteReminders(r.reminders, r.reminderHistory))
             ELSE UNCHANGED <<notified, displayed, pending>>
    /\ UNCHANGED <<now, tz, storage, clicks, theme>>

\* notificationId.replace('reminder_', '') of an id that starts with it.
StripPrefix(notificationId) == Substring(notificationId, Len("reminder_"), Len(notificationId))

\* onButtonClicked, button 0 (Mark Complete) of a shown notification: up to
\* the call of chrome.storage.local.set.
MarkComplete(notificationId) ==
    /\ notificationId \in displayed
    /\ clicks < MaxClicks
    /\ clicks' = clicks + 1
    /\ StartsWith(notificationId, "reminder_")
    /\ LET data    == Loaded(storage)
           eventId == StripPrefix(notificationId)
       IN /\ pending' = Append(pending,
                 WriteCompleted(data.completedAssignments \cup {eventId}, notificationId))
          /\ last' = Ran("complete", notificationId, "", now, data, data.reminders,
                         data.reminderHistory, EmptyMap, FALSE, TRUE, FALSE)
    /\ UNCHANGED <<now, tz, storage, alarms, displayed, notified, theme>>

\* onButtonClicked, button 1 (Snooze 1 hour) of a shown notification.
Snooze(notificationId) ==
    /\ notificationId \in displayed
    /\ clicks < MaxClicks
    /\ clicks' = clicks + 1
    /\ StartsWith(notificationId, "reminder_")
    /\ alarms' = Put(alarms, notificationId, [when |-> now + SnoozeDelay, by |-> "snooze"])
    /\ displayed' = displayed \ {notificationId}
    /\ last' = Ran("snooze", notificationId, "", now, Loaded(storage),
                   Loaded(storage).reminders, Loaded(storage).reminderHistory,
                   Put(EmptyMap, notificationId, SnoozeDelay), FALSE, FALSE, FALSE)
    /\ UNCHANGED <<now, tz, storage, notified, pending, theme>>

\* StorageSet that applies every field of a write, also the reminders and
\* reminderHistory a mark-complete write does not carry.
StorageSetAllKeys ==
    /\ pending # <<>>
    /\ LET w == Head(pending)
       IN /\ storage' = IF w.keys = "reminders"
                        THEN [storage EXCEPT !.reminders = w.reminders,
                                             !.reminderHistory = w.reminderHistory,
                                             !.shape.reminders = "ok",
                                             !.shape.reminderHistory = "ok"]
                        ELSE [storage EXCEPT !.completedAssignments = w.completedAssignments,
                                             !.reminders = w.reminders,
                                             !.reminderHistory = w.reminderHistory,
                                             !.shape.completedAssignments = "ok"]
          /\ displayed' = IF w.clear = Null THEN displayed ELSE displayed \ {w.clear}
    /\ pending' = Tail(pending)
    /\ UNCHANGED <<now, tz, alarms, notified, clicks, overlaps, last, theme>>

\* The oldest storage write in flight is applied (the keys it carries are
\* then present) and its handler resumes.
StorageSet ==
    /\ pending # <<>>
    /\ LET w == Head(pending)
       IN /\ storage' = IF w.keys = "reminders"
                        THEN [storage EXCEPT !.reminders = w.reminders,
                                             !.reminderHistory = w.reminderHistory,
                                             !.shape.reminders = "ok",
                                             !.shape.reminderHistory = "ok"]
                        ELSE [storage EXCEPT !.completedAssignments = w.completedAssignments,
                                             !.shape.completedAssignments = "ok"]
          /\ displayed' = IF w.clear = Null THEN displayed ELSE displayed \ {w.clear}
    /\ pending' = Tail(pending)
    /\ UNCHANGED <<now, tz, alarms, notified, clicks, overlaps, last, theme>>

\* Time passes to a later sampled instant; storage writes take far less, and
\* no handler has run at the new instant.
Tick ==
    /\ pending = <<>>
    /\ \E t \in NowPoints : t > now /\ now' = t
    /\ last' = NoRun
    /\ UNCHANGED <<tz, storage, alarms, displayed, notified, pending, clicks, overlaps, theme>>

\* A handler starts while fewer than MaxPending writes are in flight; a start
\* with a write in flight is an overlap.
Overlapping ==
    /\ Len(pending) < MaxPending
    /\ pending # <<>> => overlaps < MaxOverlaps
    /\ overlaps' = IF pending # <<>> THEN overlaps + 1 ELSE overlaps

\* A handler starts when no write is in flight.
OneAtATime == pending = <<>> /\ overlaps' = overlaps

\* The service worker: a handler may start while the write of another is in
\* flight.
Next ==
    \/ Overlapping /\ CheckUpcomingAssignments
    \/ Overlapping /\ \E name \in DOMAIN alarms : ReminderAlarm(name)
    \/ Overlapping /\ \E id \in displayed : MarkComplete(id)
    \/ Overlapping /\ \E id \in displayed : Snooze(id)
    \/ StorageSet
    \/ Tick

Spec == Init /\ [][Next]_vars

\* The same handlers run one at a time: none starts before the write of the
\* one before it has been applied.
NextSerial ==
    \/ OneAtATime /\ CheckUpcomingAssignments
    \/ OneAtATime /\ \E name \in DOMAIN alarms : ReminderAlarm(name)
    \/ OneAtATime /\ \E id \in displayed : MarkComplete(id)
    \/ OneAtATime /\ \E id \in displayed : Snooze(id)
    \/ StorageSet
    \/ Tick

SerialSpec == Init /\ [][NextSerial]_vars

----------------------------------------------------------------------------
(* The check under every shape of reminderSettings *)

\* reminderSettings as the options page may have left it: missing, without
\* an intervals field, with intervals that is not an array, with an empty
\* array, and with configured lead times.
SettingsShapes ==
    { NoSettings,
      Settings(TRUE, TRUE, FALSE, <<>>),
      Settings(TRUE, TRUE, FALSE, <<8>>),
      Settings(TRUE, TRUE, TRUE, <<>>),
      Settings(TRUE, TRUE, TRUE, <<16>>),
      Settings(TRUE, TRUE, TRUE, <<4, 1>>),
      Settings(TRUE, TRUE, TRUE, <<48, 16, 16>>) }

InitIntervals ==
    /\ now \in NowPoints
    /\ tz = 0
    /\ \E st \in SettingsShapes :
         storage = [events |-> <<Homework>>, completedAssignments |-> {},
                    reminderSettings |-> st,
                    reminders |-> EmptyMap, reminderHistory |-> {},
                    shape |-> AllPresent]
    /\ alarms = EmptyMap
    /\ displayed = {}
    /\ notified = EmptyMap
    /\ pending = <<>>
    /\ clicks = 0
    /\ overlaps = 0
    /\ theme = NewThemeManager
    /\ last = NoRun

NextIntervals ==
    \/ OneAtATime /\ CheckUpcomingAssignments
    \/ OneAtATime /\ \E name \in DOMAIN alarms : ReminderAlarm(name)
    \/ StorageSet
    \/ Tick

IntervalSpec == InitIntervals /\ [][NextIntervals]_vars

----------------------------------------------------------------------------
(* The handlers on storage with missing or malformed keys *)

\* What a check 20 hours before the due moment leaves behind: the 24h
\* reminder armed to fire now, the others scheduled.
Persisted ==
    CheckCompute([events |-> <<Homework>>, completedAssignments |-> {},
                  reminderSettings |-> NoSettings,
                  reminders |-> EmptyMap, reminderHistory |-> {}],
                 EmptyMap, Due1 - 20 * HourSec, 0)

\* The shapes the four keys can have when a handler loads them.
StorageShapes ==
    [events : {"ok", "missing", "wrong"},
     completedAssignments : {"ok", "missing"},
     reminders : {"ok", "missing"},
     reminderHistory : {"ok", "missing"}]

\* The state a check left behind, in which any of the keys has since been
\* lost or, events, overwritten with a value that is not an array.
InitLoad ==
    /\ now \in NowPoints
    /\ tz = 0
    /\ \E sh \in StorageShapes :
         storage = [events |-> IF sh.events = "ok" THEN <<Homework>> ELSE <<>>,
                    completedAssignments |-> {},
                    reminderSettings |-> NoSettings,
                    reminders |-> IF sh.reminders = "ok"
                                  THEN Persisted.reminders ELSE EmptyMap,
                    reminderHistory |-> IF sh.reminderHistory = "ok"
                                        THEN Persisted.reminderHistory ELSE {},
                    shape |-> sh]
    /\ alarms = Persisted.alarms
    /\ displayed = {}
    /\ notified = EmptyMap
    /\ pending = <<>>
    /\ clicks = 0
    /\ overlaps = 0
    /\ theme = NewThemeManager
    /\ last = NoRun

NextLoad ==
    \/ OneAtATime /\ CheckUpcomingAssignments
    \/ OneAtATime /\ \E name \in DOMAIN alarms : ReminderAlarm(name)
    \/ StorageSet
    \/ Tick

LoadSpec == InitLoad /\ [][NextLoad]_vars

----------------------------------------------------------------------------
(* The two timestamp conversions on their own *)

\* The host time zones, minutes east of UTC.
TzOffsets == {-240, 0, 60, 330}

\* Dates and times of day of the format family.
TokenDates == {"20240315", "20240510", "20240229", "20231231", "19991231", "20250101"}

TokenTimes == {"", "T000000", "T140000Z", "T140000", "T235959", "T083045Z"}

\* Tokens that are not of the format family.
OddTokens ==
    { Null, "", "abc", "2024", "2024051", "T", "TBD", "someday!", "tomorrow",
      "2024-05-10", "202405XX", "20240510T", "20240510T12", "20240510Tnoon",
      "2024MAY10T120000Z", "11:59 p.m." }

Tokens == {d \o t : d \in TokenDates, t \in TokenTimes} \cup OddTokens

\* The storage of a fresh install.
EmptyStorage ==
    [events |-> <<>>, completedAssignments |-> {}, reminderSettings |-> NoSettings,
     reminders |-> EmptyMap, reminderHistory |-> {}, shape |-> AllPresent]

\* The record of one conversion of a token by both functions.
Converted(token, off) ==
    [op |-> "convert", token |-> token,
     scheduler |-> ICalDateToTimestamp(token, off),
     parser |-> iCalDateToTimestamp(token, off)]

InitConvert ==
    /\ now \in NowPoints
    /\ tz \in TzOffsets
    /\ storage = EmptyStorage
    /\ alarms = EmptyMap
    /\ displayed = {}
    /\ notified = EmptyMap
    /\ pending = <<>>
    /\ clicks = 0
    /\ overlaps = 0
    /\ theme = NewThemeManager
    /\ last = NoRun

\* A token is converted by the scheduler's and by the parser's function.
Convert ==
    /\ \E token \in Tokens : last' = Converted(token, tz)
    /\ UNCHANGED <<now, tz, storage, alarms, displayed, notified, pending, clicks, overlaps, theme>>

NextConvert == Convert

ConvertSpec == InitConvert /\ [][NextConvert]_vars

----------------------------------------------------------------------------
(* ICalParser.fetchAndParse and the feeds it is given *)

\* The URL fetchAndParse requests for url.
FetchUrl(url) ==
    IF StartsWith(url, "webcal://") THEN ReplaceFirst(url, "webcal://", "https://")
    ELSE IF StartsWith(url, "webcals://") THEN ReplaceFirst(url, "webcals://", "https://")
    ELSE url

\* What the network answers to one request: fetch rejects ("refused"), or
\* it resolves with a status and response.text() rejects ("broken") or
\* resolves with the body ("ok").
Response(transport, status, body) ==
    [transport |-> transport, status |-> status, body |-> body]

\* response.ok
Ok(response) == response.status >= 200 /\ response.status <= 299

\* The message of the error a failed fetch or a failed read of the body
\* rejects with.
NetworkError == "Failed to fetch"

\* fetchAndParse that reads the body whatever the status is, and rejects
\* only when the network fails.
fetchAndParseAnyStatus(url, response, off) ==
    IF response.transport # "ok"
    THEN [requests |-> <<FetchUrl(url)>>, outcome |-> "rejected", events |-> <<>>,
          message |-> "Failed to fetch or parse iCal: " \o NetworkError]
    ELSE [requests |-> <<FetchUrl(url)>>, outcome |-> "resolved",
          events |-> parseICalContent(response.body, off), message |-> ""]

\* ICalParser.fetchAndParse(url) when the network answers its request with
\* response, in a zone off minutes east: the requests it issued, whether
\* the promise resolved or rejected, the events it resolved with and the
\* message of the error it rejected with.
fetchAndParse(url, response, off) ==
    LET requests == <<FetchUrl(url)>>
        Rejected(message) ==
            [requests |-> requests, outcome |-> "rejected", events |-> <<>>,
             message |-> "Failed to fetch or parse iCal: " \o message]
    IN IF response.transport = "refused" THEN Rejected(NetworkError)
       ELSE IF ~Ok(response)
       THEN Rejected("HTTP error! status: " \o ToString(response.status))
       ELSE IF response.transport = "broken" THEN Rejected(NetworkError)
       ELSE [requests |-> requests, outcome |-> "resolved",
             events |-> parseICalContent(response.body, off), message |-> ""]

\* The URLs the user may have configured.
Urls ==
    { "webcal://cal.example/feed.ics", "webcals://cal.example/feed.ics",
      "https://cal.example/feed.ics" }

\* Event blocks, as a calendar server writes them between BEGIN:VEVENT and
\* END:VEVENT.
BioLab ==
    "\r\nSUMMARY:ADV. BIOLOGY - B: Lab Report due 11:59 p.m.\r\nDTSTART:20240510\r\nUID:bio-1\r\n"

MathHomework ==
    "\nUID:hw1\nSUMMARY:Math homework\nDTSTART:20240509T130000Z\nDUE:20240510T120000Z\n"

EssayFriday ==
    "\nSUMMARY:Essay DUE: Friday\nDTSTART:20240510\nDUE:20240512T090000Z\n"

HistoryPaper ==
    "\nSUMMARY:History paper\nDUE;VALUE=DATE:20240512\nDTSTART:20240510\n"

ZonedQuiz ==
    "\nSUMMARY:Quiz 9am\nDTDUE;TZID=America/New_York:20240510T090000\nDTSTART:20240510\n"

ClubMeeting ==
    "\nSUMMARY:Club meeting\nDTSTART:20240510T150000Z\nUID:mtg\n"

FeesNotice ==
    "\nSUMMARY:Fees notice\nDESCRIPTION:Fees DUE: Monday\nDTSTART:20240510\n"

StudyHall == "\nSUMMARY:Study\nUID:nodate\n"

PlainQuiz == "\nSUMMARY:Quiz\nDTSTART:20240510\n"

MorningQuiz == "\nSUMMARY:Quiz 9am\nDTSTART:20240510\nUID:quiz-9\n"

Untitled == "\nDTSTART:20240511\n"

\* The feed made of the event blocks, in order, in a VCALENDAR.
RECURSIVE Events(_)
Events(blocks) ==
    IF blocks = <<>> THEN ""
    ELSE "BEGIN:VEVENT" \o Head(blocks) \o "END:VEVENT\n" \o Events(Tail(blocks))

Feed(blocks) ==
    "BEGIN:VCALENDAR\nVERSION:2.0\n" \o Events(blocks) \o "END:VCALENDAR\n"

\* The lists of blocks the server serves.
BlockLists ==
    { <<>>, <<BioLab>>, <<MathHomework, EssayFriday>>, <<HistoryPaper>>,
      <<ClubMeeting, ZonedQuiz, StudyHall>>, <<PlainQuiz, BioLab, MathHomework>>,
      <<FeesNotice, Untitled>>, <<PlainQuiz, PlainQuiz>> }

\* The bodies the server answers with: the feeds, the empty string, a block
\* that is never closed, and a page that is not a calendar.
Bodies ==
    {Feed(blocks) : blocks \in BlockLists}
        \cup {"", "BEGIN:VCALENDAR\nBEGIN:VEVENT\nSUMMARY:Quiz\n", "<html>Not Found</html>"}

Responses ==
    {Response("ok", 200, body) : body \in Bodies}
        \cup { Response("ok", 404, "<html>Not Found</html>"),
               Response("ok", 500, Feed(<<BioLab>>)),
               Response("broken", 200, ""),
               Response("refused", 0, "") }

\* The host time zones and the instants of the calls.
FetchZones == {-240, 330}

FetchTimes == {Due1 - 20 * HourSec, Due1 - 4 * HourSec}

\* The record of one call of fetchAndParse, made in a zone off minutes east.
Fetched(url, response, off, result) ==
    [op |-> "fetch", url |-> url, response |-> response, zone |-> off,
     requests |-> result.requests, outcome |-> result.outcome,
     events |-> result.events, message |-> result.message]

InitFetch ==
    /\ now \in FetchTimes
    /\ tz \in FetchZones
    /\ storage = EmptyStorage
    /\ alarms = EmptyMap
    /\ displayed = {}
    /\ notified = EmptyMap
    /\ pending = <<>>
    /\ clicks = 0
    /\ overlaps = 0
    /\ theme = NewThemeManager
    /\ last = NoRun

\* The popup calls fetchAndParse(url) and the network answers.
FetchAndParse ==
    /\ \E url \in Urls, response \in Responses :
         last' = Fetched(url, response, tz, fetchAndParse(url, response, tz))
    /\ UNCHANGED <<now, tz, storage, alarms, displayed, notified, pending, clicks, overlaps, theme>>

\* Time passes between two calls, and the host may have changed its zone.
Later ==
    /\ \E t \in FetchTimes : t > now /\ now' = t
    /\ tz' \in FetchZones
    /\ UNCHANGED <<storage, alarms, displayed, notified, pending, clicks, overlaps, last, theme>>

NextFetch == FetchAndParse \/ Later

FetchSpec == InitFetch /\ [][NextFetch]_vars

----------------------------------------------------------------------------
(* The check on the events the parser produced *)

\* The feeds whose events the popup has saved.
DueFeeds ==
    { Feed(<<BioLab>>), Feed(<<MorningQuiz, MathHomework>>),
      Feed(<<PlainQuiz, ClubMeeting>>) }

DueZones == {-240, 0}

InitDue ==
    /\ now \in NowPoints
    /\ tz \in DueZones
    /\ \E feed \in DueFeeds, st \in {NoSettings, Settings(TRUE, TRUE, TRUE, <<4, 1>>)} :
         storage = [events |-> parseICalContent(feed, tz),
                    completedAssignments |-> {},
                    reminderSettings |-> st,
                    reminders |-> EmptyMap, reminderHistory |-> {},
                    shape |-> AllPresent]
    /\ alarms = EmptyMap
    /\ displayed = {}
    /\ notified = EmptyMap
    /\ pending = <<>>
    /\ clicks = 0
    /\ overlaps = 0
    /\ theme = NewThemeManager
    /\ last = NoRun

NextDue ==
    \/ OneAtATime /\ CheckUpcomingAssignments
    \/ OneAtATime /\ \E name \in DOMAIN alarms : ReminderAlarm(name)
    \/ StorageSet
    \/ Tick

DueSpec == InitDue /\ [][NextDue]_vars

----------------------------------------------------------------------------
(* The text functions of the parser on their own (src/unnamed/part_004) *)

MaxFold == 4

MaxText == 4

\* The strings of at most n characters of the alphabet.
RECURSIVE StringsUpTo(_, _)
StringsUpTo(alphabet, n) ==
    IF n = 0 THEN {""}
    ELSE LET shorter == StringsUpTo(alphabet, n - 1)
         IN shorter \cup {s \o c : s \in shorter, c \in alphabet}

\* Raw property values as a match captures them, line breaks and leading
\* white space included.
FoldValues ==
    StringsUpTo({"a", " ", "\t", "\n", "\r"}, MaxFold)
        \cup {"Lab\r\n  report", "Lab\n\treport\n due", "a\r\n\r\n  b", "a\n\n\tb"}

\* Texts given to decodeText: plain ones with tags, line breaks and spaces,
\* ones with backslash escapes or entities, and ones that hold the text the
\* function uses as its placeholder.
Texts ==
    StringsUpTo({"a", "<", ">", "\n", " "}, MaxText)
        \cup { "a\\nb", "a\\\\nb", "a\\, b\\; c", "x &amp; y", "\\", "a\\",
               "<b>Read</b> ch. 3\n\n\n\nthen <i>rest", "1 < 2 > 0",
               "a" \o Placeholder \o "b", "a" \o Placeholder \o "nb",
               "a" \o Placeholder \o ",b" }

\* Event blocks read for SUMMARY, DESCRIPTION and LOCATION.
ValueBlocks ==
    { BioLab, MathHomework, FeesNotice, StudyHall, Untitled,
      "\nSUMMARY:Quiz\nDTSTART;VALUE=DATE:20240510\nUID:q1\n",
      "\nSUMMARY:Lab\r\n  report\r\nDTSTART:20240510\r\n",
      "\nUID:d1\nDESCRIPTION:Bring notes\nNote: room 2\nATTENDEE;CN=A:mailto:a@x.org\n",
      "\nDESCRIPTION:Read\n DUE: tomorrow\nLOCATION:Gym\nDTEND;TZID=America/New_York:20240510T150000\n",
      "\nLOCATION:Room 5",
      "\nSUMMARY:Essay\nX-ALT-DESC;FMTTYPE=text/html:<b>Essay</b>\nDTSTART:20240510\n" }

ValueNames == {"SUMMARY", "DESCRIPTION", "LOCATION"}

\* Time hints as the title expression matches them: an hour, minutes or
\* none, spaces or none, and a marker.
HintHours == {ToString(h) : h \in 1..12} \cup {"01", "09"}

HintMinutes == {"", ":00", ":05", ":30", ":59"}

HintMarkers == {"am", "pm", "AM", "PM", "a.m.", "p.m.", "A.M.", "P.M.", "a.m", "pm."}

Hints ==
    [hour : HintHours, minutes : HintMinutes, space : {"", " "}, marker : HintMarkers]

HintText(h) == h.hour \o h.minutes \o h.space \o h.marker

\* What is about to be given to a function (op "input"), and what the
\* function named op made of it.
TextRun(op, kind, name, input, output) ==
    [op |-> op, kind |-> kind, name |-> name, input |-> input, output |-> output]

TextInputs ==
    {TextRun("input", "unfold", "", v, "") : v \in FoldValues}
        \cup {TextRun("input", "decode", "", x, "") : x \in Texts}
        \cup {TextRun("input", "value", n, b, "") : n \in ValueNames, b \in ValueBlocks}
        \cup {TextRun("input", "hint", "", h, "") : h \in Hints}

InitText ==
    /\ now \in {Due1}
    /\ tz = 0
    /\ storage = EmptyStorage
    /\ alarms = EmptyMap
    /\ displayed = {}
    /\ notified = EmptyMap
    /\ pending = <<>>
    /\ clicks = 0
    /\ overlaps = 0
    /\ theme = NewThemeManager
    /\ last \in TextInputs

\* match[1].replace(/\r?\n[ \t]/g, '')
Unfold ==
    /\ last.op = "input" /\ last.kind = "unfold"
    /\ last' = TextRun("unfold", "unfold", "", last.input, unfold(last.input))
    /\ UNCHANGED <<now, tz, storage, alarms, displayed, notified, pending, clicks, overlaps, theme>>

\* this.decodeText(text)
Decode ==
    /\ last.op = "input" /\ last.kind = "decode"
    /\ last' = TextRun("decode", "decode", "", last.input, decodeText(last.input))
    /\ UNCHANGED <<now, tz, storage, alarms, displayed, notified, pending, clicks, overlaps, theme>>

\* eventData.match(/NAME:(.+?)(?=\r?\n[A-Z-]+:|$)/s)
ReadValue ==
    /\ last.op = "input" /\ last.kind = "value"
    /\ last' = TextRun("value", "value", last.name, last.input,
                       TextProperty(last.input, last.name))
    /\ UNCHANGED <<now, tz, storage, alarms, displayed, notified, pending, clicks, overlaps, theme>>

\* The hint is taken from a title and its clock time is worked out.
ReadHint ==
    /\ last.op = "input" /\ last.kind = "hint"
    /\ last' = TextRun("hint", "hint", TimeMatch("Quiz due " \o HintText(last.input)),
                       last.input,
                       ExtractedClock(TimeMatch("Quiz due " \o HintText(last.input))))
    /\ UNCHANGED <<now, tz, storage, alarms, displayed, notified, pending, clicks, overlaps, theme>>

NextText == Unfold \/ Decode \/ ReadValue \/ ReadHint

TextSpec == InitText /\ [][NextText]_vars

----------------------------------------------------------------------------
(* The handlers together with the presentation layer's saves *)

\* An assignment the feed did not hold before.
Late == Event("late", "Lab 2", "20240510T120000Z", Null, TRUE, FALSE)

\* The presentation layer saves what happened in the popup: an assignment
\* ticked as completed (its identity is added to completedAssignments), the
\* reminders switched off, or the records of a feed that was fetched again
\* and holds a new assignment.  It counts as one of the user's MaxClicks
\* actions.
PresentationSave ==
    /\ pending = <<>>
    /\ clicks < MaxClicks
    /\ clicks' = clicks + 1
    /\ \/ \E i \in 1..Len(Loaded(storage).events) :
            /\ storage.events[i].isAssignment
            /\ storage' = [storage EXCEPT
                   !.completedAssignments =
                       Loaded(storage).completedAssignments
                           \cup {EventIdOf(storage.events[i])},
                   !.shape.completedAssignments = "ok"]
       \/ storage' = [storage EXCEPT
                   !.reminderSettings = [SettingsOrDefault(@) EXCEPT !.enabled = FALSE]]
       \/ /\ \A i \in 1..Len(Loaded(storage).events) : storage.events[i] # Late
          /\ storage' = [storage EXCEPT
                   !.events = Append(Loaded(storage).events, Late),
                   !.shape.events = "ok"]
    /\ last' = Ran("save", "", "", now, Loaded(storage), Loaded(storage).reminders,
                   Loaded(storage).reminderHistory, EmptyMap, FALSE, TRUE, FALSE)
    /\ UNCHANGED <<now, tz, alarms, displayed, notified, pending, overlaps, theme>>

\* The service worker of Next and the presentation layer.
NextDelivery ==
    \/ Overlapping /\ CheckUpcomingAssignments
    \/ Overlapping /\ \E name \in DOMAIN alarms : ReminderAlarm(name)
    \/ Overlapping /\ \E id \in displayed : MarkComplete(id)
    \/ Overlapping /\ \E id \in displayed : Snooze(id)
    \/ PresentationSave
    \/ StorageSet
    \/ Tick

DeliverySpec == Init /\ [][NextDelivery]_vars

----------------------------------------------------------------------------
(* The popup's theme: calls, the weather lookup and the timers *)

MaxAnimations == 2

\* The themes asked for: names of THEME_NAMES, none, and an unknown name.
ThemeChoices == {"fern", "ocean", "midnight", "serenity", Null, "neon"}

\* Hours of the day at which a call is made, one per phase.
SampleHours == {3, 6, 9, 12, 17, 20}

\* Conditions the weather lookup gives; a failed lookup gives "clear".
Conditions == {"clear", "clouds", "rain", "snow", "storm"}

InitTheme ==
    /\ now \in {Due1}
    /\ tz = 0
    /\ storage = EmptyStorage
    /\ alarms = EmptyMap
    /\ displayed = {}
    /\ notified = EmptyMap
    /\ pending = <<>>
    /\ clicks = 0
    /\ overlaps = 0
    /\ last = NoRun
    /\ theme \in {[NewThemeManager EXCEPT !.geolocation = g] : g \in BOOLEAN}

\* applyTheme(t) is called; its 400 ms animation timer is started.
ApplyTheme ==
    /\ theme.animationTimers < MaxAnimations
    /\ \E t \in ThemeChoices : \E hour \in SampleHours : \E fresh \in BOOLEAN :
         theme' = applyTheme(theme, t, hour, fresh)
    /\ UNCHANGED <<now, tz, storage, alarms, displayed, notified, pending, clicks, overlaps, last>>

\* The weather lookup of the suspended applySerenityTheme call settles and
\* the call runs to its end.
WeatherArrives ==
    /\ theme.awaiting # Null
    /\ theme.serenityApplying
    /\ \E condition \in Conditions : theme' = serenityResumed(theme, condition)
    /\ UNCHANGED <<now, tz, storage, alarms, displayed, notified, pending, clicks, overlaps, last>>

\* The refresh timer fires: applySerenityTheme() if the theme is serenity.
RefreshTimerFires ==
    /\ theme.refreshPending
    /\ \E hour \in SampleHours : \E fresh \in BOOLEAN :
         theme' = applySerenityTheme([theme EXCEPT !.refreshPending = FALSE], hour, fresh)
    /\ UNCHANGED <<now, tz, storage, alarms, displayed, notified, pending, clicks, overlaps, last>>

\* A 400 ms animation timer fires and removes the class theme-animating.
AnimationEnds ==
    /\ theme.animationTimers > 0
    /\ theme' = [theme EXCEPT !.animationTimers = @ - 1, !.animating = FALSE]
    /\ UNCHANGED <<now, tz, storage, alarms, displayed, notified, pending, clicks, overlaps, last>>

NextTheme == ApplyTheme \/ WeatherArrives \/ RefreshTimerFires \/ AnimationEnds

ThemeSpec == InitTheme /\ [][NextTheme]_vars

----------------------------------------------------------------------------
(* The vocabulary of the claims *)

\* The records of the feed.
Records == {storage.events[i] : i \in 1..Len(storage.events)}

\* A record's identity: its uid if present, else title + '_' + (dueRaw or
\* startRaw).
Identity(e) ==
    IF e.uid # Null /\ e.uid # "" THEN e.uid
    ELSE e.title \o "_" \o
         (IF e.dueRaw # Null /\ e.dueRaw # "" THEN e.dueRaw
          ELSE IF e.startRaw = Null THEN "null" ELSE e.startRaw)

\* A record's effective due/start token (Null when it has neither).
EffectiveToken(e) == IF e.dueRaw # Null /\ e.dueRaw # "" THEN e.dueRaw ELSE e.startRaw

AllDigits(s) == \A i \in 1..Len(s) : IsDigit(SubSeq(s, i, i))

\* A token of the format family YYYYMMDD or YYYYMMDDTHHMMSS[Z].
WellFormedToken(s) ==
    /\ s # Null
    /\ \/ Len(s) = 8 /\ AllDigits(s)
       \/ /\ Len(s) \in {15, 16}
          /\ AllDigits(SubSeq(s, 1, 8)) /\ SubSeq(s, 9, 9) = "T"
          /\ AllDigits(SubSeq(s, 10, 15))
          /\ Len(s) = 16 => SubSeq(s, 16, 16) = "Z"

\* The due moment of a record with a well-formed token.
DueMoment(e) == ICalDateToTimestamp(EffectiveToken(e), tz)

\* The lead times in force, in hours.
LeadHours ==
    LET iv == IntervalsOf(SettingsOrDefault(storage.reminderSettings))
    IN {iv[i] : i \in 1..Len(iv)}

\* The check has just run to its storage write.
CheckRan == last.op = "check" /\ last.wrote

\* A record the check that ran last had to remind about: an assignment, not
\* completed, with a known due moment after the check's clock.
Eligible(e) ==
    /\ e.isAssignment /\ ~e.isCompleted
    /\ Identity(e) \notin last.read.completedAssignments
    /\ WellFormedToken(EffectiveToken(e))
    /\ DueMoment(e) > last.now

\* The moment at which the reminder of record e with lead time h is meant to
\* fire.
TargetTime(e, h) == DueMoment(e) - h * 3600

\* The handler that ran last created no alarm for id and left its entry in
\* reminders and its mark in reminderHistory as they were.
Untouched(id) ==
    /\ id \notin DOMAIN last.created
    /\ (id \in DOMAIN last.reminders) = (id \in DOMAIN last.read.reminders)
    /\ id \in DOMAIN last.reminders => last.reminders[id] = last.read.reminders[id]
    /\ (id \in last.reminderHistory) = (id \in last.read.reminderHistory)

\* The check that ran last created nothing for record e.
NothingCreatedFor(e) == \A h \in LeadHours : Untouched(ReminderId(Identity(e), h))

----------------------------------------------------------------------------
(* Claims *)

\* C1 (under SerialSpec): when the handlers run one at a time, every reminder id
\* has at most one notification created for it. It holds whether or not a
\* button is pressed in between.
FireOnce == \A id \in DOMAIN notified : notified[id] <= 1

\* C1 witness: a check has just run past a reminder that was delivered once
\* and whose lead window is still open.
FireOnceWitness ==
    /\ CheckRan
    /\ \E e \in Records : \E h \in LeadHours :
         LET id == ReminderId(Identity(e), h)
         IN /\ Eligible(e) /\ TargetTime(e, h) <= last.now
            /\ id \in DOMAIN notified /\ notified[id] = 1
            /\ id \in last.read.reminderHistory

\* C2 (under Spec): no update is lost when handlers interleave: once every write
\* has landed, an id that was delivered is in reminderHistory and not in
\* reminders, and it was delivered once.
NoLostUpdate ==
    pending = <<>> =>
        \A id \in DOMAIN notified :
            /\ id \in storage.reminderHistory
            /\ id \notin DOMAIN storage.reminders
            /\ notified[id] <= 1

\* C3 (under SerialSpec): when the alarm that Snooze scheduled fires, the
\* notification is created again.
SnoozeRefires == (last.op = "alarm" /\ last.by = "snooze") => last.shown

\* C4: a check run again at the same instant on what the check before it
\* persisted creates no alarm and leaves reminders and reminderHistory as
\* they are.
CheckIsIdempotent ==
    last.rerun =>
        /\ last.created = EmptyMap
        /\ last.reminders = last.read.reminders
        /\ last.reminderHistory = last.read.reminderHistory

\* C4 witness: the second of two such checks, the first of which had fired
\* one reminder now and scheduled another.
CheckIsIdempotentWitness ==
    /\ last.rerun
    /\ last.read.reminderHistory # {}
    /\ \E id \in DOMAIN last.read.reminders : id \notin last.read.reminderHistory

\* C5: the check creates no alarm and no reminders or reminderHistory entry
\* for a record that is not an assignment or whose identity is a key of
\* completedAssignments.
CheckSkipsCompleted ==
    last.op = "check" =>
        \A e \in Records :
            (~e.isAssignment \/ Identity(e) \in last.read.completedAssignments)
                => NothingCreatedFor(e)

\* C5 witness: a check that created alarms for another record has passed a
\* record whose identity is completed and whose due moment is still ahead.
CheckSkipsCompletedWitness ==
    /\ CheckRan
    /\ DOMAIN last.created # {}
    /\ \E e \in Records :
         /\ e.isAssignment /\ Identity(e) \in last.read.completedAssignments
         /\ WellFormedToken(EffectiveToken(e)) /\ DueMoment(e) > last.now

\* C6: the check creates no alarm and no reminder entry for a record whose
\* due moment is at or before now, or whose effective token is absent or is
\* not a well-formed token.
CheckSkipsUnresolvable ==
    last.op = "check" =>
        \A e \in Records :
            (\/ EffectiveToken(e) = Null
             \/ ~WellFormedToken(EffectiveToken(e))
             \/ DueMoment(e) <= last.now)
                => NothingCreatedFor(e)

\* C7: for an eligible record and a lead time whose target time has come, a
\* check with reminders enabled creates the immediate alarm (0.1 minute) and
\* marks the id in reminderHistory in the same run, unless the id is marked
\* already, and then it does nothing for it.
FireNowRule ==
    CheckRan =>
        \A e \in Records : \A h \in LeadHours :
            (Eligible(e) /\ TargetTime(e, h) <= last.now) =>
                LET id == ReminderId(Identity(e), h)
                IN IF id \in last.read.reminderHistory
                   THEN Untouched(id)
                   ELSE /\ id \in DOMAIN last.created /\ last.created[id] = 6
                        /\ id \in last.reminderHistory
                        /\ id \in DOMAIN last.reminders

\* C7 witness: one check met both cases, a reminder it fires now and one
\* already marked.
FireNowRuleWitness ==
    /\ CheckRan
    /\ \E e \in Records : \E h1, h2 \in LeadHours :
         /\ Eligible(e) /\ TargetTime(e, h1) <= last.now /\ TargetTime(e, h2) <= last.now
         /\ ReminderId(Identity(e), h1) \in last.read.reminderHistory
         /\ ReminderId(Identity(e), h2) \notin last.read.reminderHistory
         /\ ReminderId(Identity(e), h2) \in DOMAIN last.created

\* C8: for an eligible record and a lead time whose target time is ahead,
\* the check creates an alarm only if the id is in neither reminders nor
\* reminderHistory; the delay is targetTime - now, at least 0.1 minute; the
\* entry is stored in reminders and reminderHistory is not modified.
FutureRule ==
    CheckRan =>
        \A e \in Records : \A h \in LeadHours :
            (Eligible(e) /\ TargetTime(e, h) > last.now) =>
                LET id    == ReminderId(Identity(e), h)
                    ahead == TargetTime(e, h) - last.now
                IN IF id \in DOMAIN last.read.reminders \/ id \in last.read.reminderHistory
                   THEN Untouched(id)
                   ELSE /\ id \in DOMAIN last.created
                        /\ last.created[id] = IF ahead < 6 THEN 6 ELSE ahead
                        /\ id \in DOMAIN last.reminders
                        /\ id \notin last.reminderHistory

\* C8 witness: a check scheduled a reminder whose target time was less than
\* 0.1 minute ahead, with the delay 0.1 minute.
FutureRuleWitness ==
    /\ CheckRan
    /\ \E e \in Records : \E h \in LeadHours :
         LET id == ReminderId(Identity(e), h)
         IN /\ Eligible(e)
            /\ TargetTime(e, h) > last.now /\ TargetTime(e, h) - last.now < 6
            /\ id \in DOMAIN last.created /\ last.created[id] = 6
            /\ id \notin last.reminderHistory

\* Of a check on empty persisted state: the lead times h >= d fire now, the
\* lead times h < d are scheduled, each with the delay Delay(d - h), where d
\* is the time from now to the due moment.
Partition(Delay(_)) ==
    (CheckRan /\ last.read.reminders = EmptyMap /\ last.read.reminderHistory = {}) =>
        \A e \in Records : \A h \in LeadHours :
            Eligible(e) =>
                LET id == ReminderId(Identity(e), h)
                    d  == DueMoment(e) - last.now
                IN /\ id \in DOMAIN last.created
                   /\ id \in DOMAIN last.reminders
                   /\ IF h * 3600 >= d
                      THEN last.created[id] = 6 /\ id \in last.reminderHistory
                      ELSE /\ last.created[id] = Delay(d - h * 3600)
                           /\ id \notin last.reminderHistory

Exactly(x) == x

AtLeastTenthOfMinute(x) == IF x < 6 THEN 6 ELSE x

\* C9 as stated: the lead times h < d are scheduled with the delay d - h.
PartitionExactDelay == Partition(Exactly)

\* C9 as amended: the lead times h >= d fire now and the lead times h < d
\* are scheduled with the delay d - h, raised to 0.1 minute when it is less.
PartitionClampedDelay == Partition(AtLeastTenthOfMinute)

\* C9 witness: 20 hours before the due moment, the default lead times: 24h
\* fires now, 16h, 4h and 1h are scheduled 4, 16 and 19 hours ahead.
PartitionWitness ==
    /\ CheckRan
    /\ last.read.reminders = EmptyMap /\ last.read.reminderHistory = {}
    /\ last.now = Due1 - 20 * 3600
    /\ last.created = [id \in {"reminder_hw1_24h", "reminder_hw1_16h",
                               "reminder_hw1_4h", "reminder_hw1_1h"} |->
                         CASE id = "reminder_hw1_24h" -> 6
                           [] id = "reminder_hw1_16h" -> 4 * 3600
                           [] id = "reminder_hw1_4h" -> 16 * 3600
                           [] id = "reminder_hw1_1h" -> 19 * 3600]
    /\ last.reminderHistory = {"reminder_hw1_24h"}

\* C10: a reminder alarm whose id has an entry in the reminders it reads
\* creates the notification and writes reminders without the entry and
\* reminderHistory with the id; when no handler has overlapped another, the
\* id is in the persisted reminderHistory and not in the persisted reminders
\* once that write has landed. An alarm whose id has no entry creates no
\* notification and writes nothing. No check schedules an id that is in the
\* reminderHistory it reads.
ReminderLifecycle ==
    /\ last.op = "alarm" =>
         IF last.id \in DOMAIN last.read.reminders
         THEN /\ last.shown /\ last.wrote
              /\ last.id \in DOMAIN notified
              /\ last.id \in last.reminderHistory
              /\ last.id \notin DOMAIN last.reminders
              /\ (overlaps = 0 /\ pending = <<>>) =>
                   /\ last.id \in storage.reminderHistory
                   /\ last.id \notin DOMAIN storage.reminders
                   /\ last.read.reminderHistory \subseteq storage.reminderHistory
                   /\ DOMAIN storage.reminders = DOMAIN last.read.reminders \ {last.id}
         ELSE /\ ~last.shown /\ ~last.wrote
              /\ overlaps = 0 =>
                   /\ pending = <<>>
                   /\ storage.reminders = last.read.reminders
                   /\ storage.reminderHistory = last.read.reminderHistory
    /\ last.op = "check" =>
         \A id \in last.read.reminderHistory : Untouched(id)

\* C10 witness: a reminder that a check had scheduled has fired and its
\* write has landed.
ReminderLifecycleWitness ==
    /\ last.op = "alarm" /\ last.shown /\ pending = <<>>
    /\ last.by = "check"
    /\ last.id \notin last.read.reminderHistory
    /\ last.id \in storage.reminderHistory

\* C11: Mark Complete writes completedAssignments only; when no handler has
\* overlapped another, reminderHistory is after it what it was before it, the
\* notification's id is still in reminderHistory, and the id is not in
\* reminders.
MarkCompleteKeepsHistory ==
    /\ \A i \in 1..Len(pending) :
         pending[i].clear # Null => pending[i].keys = "completedAssignments"
    /\ (last.op = "complete" /\ overlaps = 0) =>
         /\ storage.reminderHistory = last.read.reminderHistory
         /\ last.id \in storage.reminderHistory
         /\ last.id \notin DOMAIN storage.reminders

\* C11 witness: Mark Complete was pressed on a delivered reminder and its
\* write has landed.
MarkCompleteKeepsHistoryWitness ==
    /\ last.op = "complete" /\ overlaps = 0 /\ pending = <<>>
    /\ Substring(last.id, 9, Len(last.id)) \in storage.completedAssignments
    /\ last.id \in storage.reminderHistory

\* The lead times C12 names for the stored reminderSettings.
ExpectedLeadHours ==
    LET st == storage.reminderSettings
    IN IF ~st.present \/ ~st.isArray \/ st.intervals = <<>>
       THEN {24, 16, 4, 1}
       ELSE {st.intervals[i] : i \in 1..Len(st.intervals)}

\* C12 (under IntervalSpec): after a check, the reminder ids of an eligible
\* record are exactly one per lead time in force: 24, 16, 4 and 1 hours when
\* reminderSettings is absent or its intervals are missing, not an array or
\* empty, and the configured lead times otherwise.
IntervalsRule ==
    CheckRan =>
        \A e \in Records :
            Eligible(e) =>
                DOMAIN last.reminders \cup last.reminderHistory
                    = {"reminder_" \o Identity(e) \o "_" \o ToString(h) \o "h" :
                         h \in ExpectedLeadHours}

\* C12 witness: a check whose settings hold an empty intervals array has
\* created the four default reminders of an eligible record.
IntervalsRuleWitness ==
    /\ CheckRan
    /\ \E e \in Records : Eligible(e)
    /\ storage.reminderSettings.present
    /\ storage.reminderSettings.isArray
    /\ storage.reminderSettings.intervals = <<>>
    /\ DOMAIN last.created = {"reminder_hw1_24h", "reminder_hw1_16h",
                              "reminder_hw1_4h", "reminder_hw1_1h"}

\* C13 (under LoadSpec): whichever of events, completedAssignments,
\* reminders and reminderHistory is missing or malformed in storage, the two
\* alarm handlers take it for empty and run to their end without an error.
CorruptStateNeverFatal ==
    last.op \in {"check", "alarm"} =>
        /\ ~last.threw
        /\ last.read.shape.reminders # "ok" => last.read.reminders = EmptyMap
        /\ last.read.shape.reminderHistory # "ok" => last.read.reminderHistory = {}
        /\ last.read.shape.completedAssignments # "ok" =>
               last.read.completedAssignments = {}
        /\ (last.op = "check" /\ last.read.shape.events # "ok") =>
               /\ last.wrote
               /\ last.created = EmptyMap
               /\ last.reminders = last.read.reminders
               /\ last.reminderHistory = last.read.reminderHistory

\* A component of a token that is one or more digits and nothing else.
DigitsOnly(x) == Len(x) > 0 /\ AllDigits(x)

\* A token that fails to parse, as C14 lists them: absent, shorter than 8
\* characters without 'T', or with a year, month or day that is not digits,
\* or, after a 'T', an hour, minute or second that is there and not digits.
FailsToParse(s) ==
    \/ s = Null
    \/ s = ""
    \/ ~Includes(s, "T") /\ Len(s) < 8
    \/ ~DigitsOnly(Substring(s, 0, 4))
    \/ ~DigitsOnly(Substring(s, 4, 6))
    \/ ~DigitsOnly(Substring(s, 6, 8))
    \/ /\ Includes(s, "T")
       /\ \E c \in {Substring(s, 9, 11), Substring(s, 11, 13), Substring(s, 13, 15)} :
              c # "" /\ ~AllDigits(c)

\* C14 (under ConvertSpec): both conversions return 0 for every token that
\* fails to parse.
ParseFailureYieldsZero ==
    (last.op = "convert" /\ FailsToParse(last.token)) =>
        last.scheduler = 0 /\ last.parser = 0

\* The calendar, counted from 1970-01-01.
LeapYear(y) == (y % 4 = 0 /\ y % 100 # 0) \/ y % 400 = 0

DaysInMonth(y, m) ==
    IF m = 2 THEN (IF LeapYear(y) THEN 29 ELSE 28)
    ELSE IF m \in {4, 6, 9, 11} THEN 30 ELSE 31

RECURSIVE DaysBeforeYear(_)
DaysBeforeYear(y) ==
    IF y <= 1970 THEN 0
    ELSE DaysBeforeYear(y - 1) + (IF LeapYear(y - 1) THEN 366 ELSE 365)

RECURSIVE DaysBeforeMonth(_, _)
DaysBeforeMonth(y, m) ==
    IF m <= 1 THEN 0 ELSE DaysBeforeMonth(y, m - 1) + DaysInMonth(y, m - 1)

\* The number written by a string of digits.
RECURSIVE Decimal(_)
Decimal(s) ==
    IF s = "" THEN 0
    ELSE Decimal(SubSeq(s, 1, Len(s) - 1)) * 10
         + (CHOOSE n \in 0..9 : ToString(n) = SubSeq(s, Len(s), Len(s)))

\* The moment, in seconds since the epoch, that a well-formed token names in
\* a zone off minutes east of UTC: its components are UTC when it has a time
\* and ends in Z, local otherwise, and a date alone is local midnight.
MomentOf(s, off) ==
    LET y     == Decimal(SubSeq(s, 1, 4))
        m     == Decimal(SubSeq(s, 5, 6))
        d     == Decimal(SubSeq(s, 7, 8))
        days  == DaysBeforeYear(y) + DaysBeforeMonth(y, m) + d - 1
        clock == IF Len(s) = 8 THEN 0
                 ELSE Decimal(SubSeq(s, 10, 11)) * 3600
                      + Decimal(SubSeq(s, 12, 13)) * 60
                      + Decimal(SubSeq(s, 14, 15))
        utc   == Len(s) = 16
    IN days * 86400 + clock - (IF utc THEN 0 ELSE off * 60)

\* C15 (under ConvertSpec): the scheduler's and the parser's conversion
\* return the same value for every token, and for a well-formed token that
\* value is the moment the token names: UTC with 'T' and 'Z', local time with
\* 'T' and no 'Z', local midnight without 'T'.
ConversionSemantics ==
    last.op = "convert" =>
        /\ last.scheduler = last.parser
        /\ WellFormedToken(last.token) =>
               last.parser = MomentOf(last.token, tz)

\* C15 witness: 20240315T140000 converted four hours west of UTC is
\* 2024-03-15 18:00:00 UTC.
ConversionSemanticsWitness ==
    /\ last.op = "convert"
    /\ last.token = "20240315T140000" /\ tz = -240
    /\ last.parser = 1710525600 /\ last.scheduler = 1710525600

\* The positions at which a content line of the block starts.
LineStarts(block) ==
    {0} \cup {p + 1 : p \in {q \in 0..(Len(block) - 1) : CharAt(block, q) = "\n"}}

\* The content line that starts at p is the property name: the name is
\* followed by ':' or by ';' and parameters.
IsPropertyLine(block, p, name) ==
    StartsWithAt(block, name, p) /\ CharAt(block, p + Len(name)) \in {":", ";"}

\* The value of the property line that starts at p: what follows the first
\* colon, up to the end of the line.
PropertyValue(block, p) ==
    LET colon == IndexOfFrom(block, ":", p)
    IN Substring(block, colon + 1, RunEnd(block, colon + 1, "line"))

\* The value of the first DUE or DTDUE property of the block, Null when the
\* block has none.
DueProperty(block) ==
    LET lines == {p \in LineStarts(block) :
                     IsPropertyLine(block, p, "DUE") \/ IsPropertyLine(block, p, "DTDUE")}
    IN IF lines = {} THEN Null ELSE PropertyValue(block, Least(lines))

\* fetchAndParse has just resolved.
Parsed == last.op = "fetch" /\ last.outcome = "resolved"

\* The event blocks of the body that was parsed last.
BlocksParsed == eventBlocks(last.response.body, 0)

\* C16: for every parsed record, (1) if the block has a DUE/DTDUE property,
\* dueRaw is that value and the fallback flag is not set, whatever the title
\* contains; (2) else if the record is an assignment with a startRaw, dueRaw
\* is startRaw and the fallback flag is set; (3) else dueRaw is absent.
DueResolutionPrecedence ==
    Parsed =>
        \A i \in 1..Len(last.events) :
            LET e   == last.events[i]
                due == DueProperty(BlocksParsed[i])
            IN IF due # Null
               THEN e.dueRaw = due /\ ~e.trinityFormat
               ELSE IF e.isAssignment /\ ~Falsy(e.startRaw)
               THEN e.dueRaw = e.startRaw /\ e.trinityFormat
               ELSE e.dueRaw = Null /\ ~e.trinityFormat


\* A record whose due date is the fallback: an assignment with no DUE, a
\* date-only DTSTART and a time hint in its title.
Hinted(e) ==
    /\ e.isAssignment /\ e.trinityFormat
    /\ ~Falsy(e.extractedTime)
    /\ Len(e.startRaw) = 8 /\ AllDigits(e.startRaw)

\* The date of a hinted record combined with the hour and minute of its
\* hint, as a moment of local time.
HintedDue(e) ==
    With(ExtractedClock(e.extractedTime), LAMBDA clock :
         DateLocal(ParseInt(SubSeq(e.startRaw, 1, 4)),
                   ParseInt(SubSeq(e.startRaw, 5, 6)) - 1,
                   ParseInt(SubSeq(e.startRaw, 7, 8)),
                   clock.hours, clock.minutes, 0, tz))

\* C17: for a hinted record the due display shows the date combined with
\* the hinted hour and minute, and the check computes the target time of
\* every reminder from that same moment: while that moment is ahead, a
\* reminder whose target time has come is fired now and one whose target
\* time is ahead is scheduled for it, unless its id is already known.
HintDrivesSchedule ==
    CheckRan =>
        \A e \in Records :
            (Hinted(e) /\ Identity(e) \notin last.read.completedAssignments) =>
                /\ e.dueTime.kind = "moment" /\ e.dueTime.at = HintedDue(e)
                /\ HintedDue(e) > last.now =>
                     \A h \in LeadHours :
                         LET id     == ReminderId(Identity(e), h)
                             target == HintedDue(e) - h * 3600
                         IN IF id \in last.read.reminderHistory
                               \/ (target > last.now /\ id \in DOMAIN last.read.reminders)
                            THEN Untouched(id)
                            ELSE /\ id \in DOMAIN last.created
                                 /\ last.created[id] =
                                        IF target - last.now < 6 THEN 6
                                        ELSE target - last.now


\* The https form of a URL of the webcal or webcals scheme; any other URL
\* as it is.
Https(url) ==
    IF StartsWith(url, "webcal://") THEN "https://" \o Substring(url, 9, Len(url))
    ELSE IF StartsWith(url, "webcals://") THEN "https://" \o Substring(url, 10, Len(url))
    ELSE url

\* The network failed or answered with an unsuccessful status.
Failed(response) ==
    response.transport # "ok" \/ response.status < 200 \/ response.status > 299

\* C18: a call of fetchAndParse issues exactly one request, to the URL with
\* webcal:// or webcals:// rewritten to https://; when the transport fails
\* or the status is not successful it rejects with one descriptive message
\* and no record list; otherwise it resolves with the parse of the body.
FetchContract ==
    last.op = "fetch" =>
        /\ last.requests = <<Https(last.url)>>
        /\ IF Failed(last.response)
           THEN /\ last.outcome = "rejected"
                /\ last.events = <<>>
                /\ StartsWith(last.message, "Failed to fetch or parse iCal: ")
                /\ Len(last.message) > Len("Failed to fetch or parse iCal: ")
           ELSE /\ last.outcome = "resolved"
                /\ last.events = parseICalContent(last.response.body, last.zone)
                /\ last.message = ""

\* C18 witness: a call with a webcals URL was answered with status 500 and a
\* body that holds an event block, and rejected without any record.
FetchContractWitness ==
    /\ last.op = "fetch"
    /\ last.url = "webcals://cal.example/feed.ics"
    /\ last.requests = <<"https://cal.example/feed.ics">>
    /\ last.response.status = 500
    /\ Len(eventBlocks(last.response.body, 0)) = 1
    /\ last.outcome = "rejected" /\ last.events = <<>>


\* The body holds no BEGIN:VEVENT that is followed by an END:VEVENT.
NoBlock(body) ==
    \A b \in 0..(Len(body) - 1) :
        StartsWithAt(body, "BEGIN:VEVENT", b) =>
            \A e \in (b + 12)..(Len(body) - 1) : ~StartsWithAt(body, "END:VEVENT", e)

\* C19: parsing a feed gives exactly one record for each of its event
\* blocks, in the order of the blocks in the feed, and gives the empty list
\* for a body without an event block, the empty string included.
OneRecordPerBlock ==
    Parsed =>
        /\ \A blocks \in BlockLists :
               last.response.body = Feed(blocks) =>
                   /\ Len(last.events) = Len(blocks)
                   /\ \A i \in 1..Len(blocks) :
                          last.events[i] = parseEvent(blocks[i], last.zone)
        /\ NoBlock(last.response.body) => last.events = <<>>

\* C19 witness: a feed of three blocks, the one that starts earliest last,
\* gave three records in the order of the feed.
OneRecordPerBlockWitness ==
    /\ Parsed
    /\ last.response.body = Feed(<<PlainQuiz, BioLab, MathHomework>>)
    /\ Len(last.events) = 3
    /\ last.events[1].title = "Quiz" /\ last.events[1].startRaw = "20240510"
    /\ last.events[2].uid = "bio-1"
    /\ last.events[3].uid = "hw1" /\ last.events[3].startRaw = "20240509T130000Z"


\* The identities of a list of records, in the order of the list.
Identities(events) == [i \in 1..Len(events) |-> Identity(events[i])]

\* The zones of the hosts that parse a feed.
ParseZones == FetchZones \cup DueZones

\* For each feed, the identity lists that its parses on the hosts give.
ParsedIdentities ==
    [feed \in {Feed(blocks) : blocks \in BlockLists} \cup DueFeeds |->
        {Identities(parseICalContent(feed, off)) : off \in ParseZones}]

\* The reminder ids of the saved records at the lead hours of the settings.
ReminderIds == {ReminderId(Identity(e), h) : e \in Records, h \in LeadHours}

\* C20: every parse of a feed gives, record by record, the same identity
\* (uid, else title + '_' + (dueRaw or startRaw)) whatever the host and the
\* moment of the parse, and every run of the check names a reminder
\* 'reminder_' + identity + '_' + lead hours + 'h': the ids armed, stored
\* and created are those of the saved records at the lead hours, and a
\* stored reminder's id is the one of its own identity and lead hours.
IdentityDeterminism ==
    /\ \A feed \in DOMAIN ParsedIdentities : Cardinality(ParsedIdentities[feed]) = 1
    /\ \E feed \in DueFeeds : ParsedIdentities[feed] = {Identities(storage.events)}
    /\ DOMAIN alarms \subseteq ReminderIds
    /\ \A id \in DOMAIN storage.reminders :
           /\ id \in ReminderIds
           /\ id = ReminderId(storage.reminders[id].eventId,
                              storage.reminders[id].intervalHours)
    /\ last.op = "check" =>
           /\ DOMAIN last.created \subseteq ReminderIds
           /\ DOMAIN last.reminders \subseteq ReminderIds

\* C20 witness: a record without a uid, parsed from the feed, got the
\* reminder id of its title and start token from one run of the check, and
\* a later run found it under the same id.
IdentityDeterminismWitness ==
    /\ Identities(storage.events) = <<"Quiz_20240510", "mtg">>
    /\ last.op = "check"
    /\ "reminder_Quiz_20240510_4h" \in DOMAIN last.read.reminders
    /\ "reminder_Quiz_20240510_4h" \in DOMAIN last.reminders
    /\ "reminder_Quiz_20240510_4h" \in DOMAIN alarms



\* A handler other than the periodic check has run to its end: a reminder
\* alarm that showed its notification, a Mark Complete or a Snooze, and its
\* storage write has been applied.
Triggered ==
    /\ last.op \in {"alarm", "complete", "snooze"}
    /\ last.op = "alarm" => last.shown
    /\ pending = <<>>

\* The reminder computation has nothing left to do at this moment: run on
\* the stored state, it creates no alarm and changes neither reminders nor
\* reminderHistory.
ComputationDone ==
    LET data == Loaded(storage)
        r    == CheckCompute(data, alarms, now, tz)
    IN SettingsOrDefault(data.reminderSettings).enabled =>
           /\ r.created = EmptyMap
           /\ r.reminders = data.reminders
           /\ r.reminderHistory = data.reminderHistory

\* C21: the reminder computation runs on the periodic timer and also
\* whenever a reminder notification fires and whenever the user marks
\* complete or snoozes from a notification: once such a handler has ended,
\* the computation has run on the state it left.
RecomputedOnEveryTrigger == Triggered => ComputationDone

----------------------------------------------------------------------------
(* The unfold step of a property value *)

\* No line of v is empty: no line feed is directly followed by a line break.
NoEmptyLine(v) ==
    /\ IndexOfFrom(v, "\n\n", 0) = -1
    /\ IndexOfFrom(v, "\n\r\n", 0) = -1

\* C22, as stated: for every property value, unfolding an already-unfolded
\* value returns it unchanged, unfold(unfold(v)) = unfold(v).
UnfoldIdempotent ==
    last.op = "unfold" => unfold(last.output) = last.output

\* C22, amended: for every property value without an empty line, unfolding
\* an already-unfolded value returns it unchanged; a value with an empty
\* line followed by a line that starts with two blanks is unfolded further
\* by a second pass.
UnfoldIdempotentWithoutEmptyLine ==
    /\ (last.op = "unfold" /\ NoEmptyLine(last.input))
           => unfold(last.output) = last.output
    /\ (last.op = "unfold" /\ last.input = "a\r\n\r\n  b")
           => /\ last.output = "a\r\n b"
              /\ unfold(last.output) = "ab"

UnfoldIdempotentWitness ==
    /\ last.op = "unfold"
    /\ last.input = "Lab\n\treport\n due"
    /\ NoEmptyLine(last.input)
    /\ last.output = "Labreportdue"
    /\ unfold(last.output) = last.output

----------------------------------------------------------------------------
(* decodeText on its own output *)

\* x holds no entity and no backslash escape.
PlainText(x) ==
    /\ IndexOfFrom(x, "\\", 0) = -1
    /\ IndexOfFrom(x, "&", 0) = -1

\* C23: for every input x with no entities and no backslash escapes,
\* decodeText(decodeText(x)) = decodeText(x).
DecodeIdempotentOnPlainText ==
    (last.op = "decode" /\ PlainText(last.input))
        => decodeText(last.output) = last.output

----------------------------------------------------------------------------
(* Where a SUMMARY, DESCRIPTION or LOCATION value ends *)

\* At position q of s a line break is followed by a property name, a run of
\* uppercase letters and hyphens, and then by ":" or ";".
NextNameAt(s, q) ==
    LET n == IF CharAt(s, q) = "\n" THEN q + 1
             ELSE IF CharAt(s, q) = "\r" /\ CharAt(s, q + 1) = "\n" THEN q + 2
             ELSE -1
        r == RunEnd(s, n, "name")
    IN n >= 0 /\ r > n /\ CharAt(s, r) \in {":", ";"}

\* The end of the value that starts at position start of s: the first such
\* line after it, or the end of the block.
StatedEnd(s, start) ==
    Least({e \in (start + 1)..Len(s) : e = Len(s) \/ NextNameAt(s, e)})

\* C24: a SUMMARY, DESCRIPTION or LOCATION value ends at the end of the
\* block or at the first following line that is not a continuation and
\* starts with a property name immediately followed by ":" or ";"; the text
\* of the next property, also of one with parameters, is never part of it.
ValueEndsAtNextProperty ==
    (last.op = "value" /\ last.output # Null) =>
        LET start == IndexOfFrom(last.input, last.name \o ":", 0) + Len(last.name) + 1
        IN last.output = Substring(last.input, start, StatedEnd(last.input, start))

----------------------------------------------------------------------------
(* The clock time of a time hint *)

HintHour(h) == ParseInt(h.hour)

HintMinute(h) == IF h.minutes = "" THEN 0 ELSE ParseInt(Substring(h.minutes, 1, 3))

HintIsPM(h) == CharAt(ToLowerCase(h.marker), 0) = "p"

\* C25: for every hint with hour H in 1..12, optional minutes M in 0..59
\* and an am/pm marker, the resolved hour is H+12 when pm and H # 12, 0 when
\* am and H = 12, and H otherwise, the minute is M (0 when absent), and the
\* resolved hour is always in 0..23.
HintConversion ==
    last.op = "hint" =>
        LET H == HintHour(last.input)
            M == HintMinute(last.input)
        IN /\ last.name = HintText(last.input)
           /\ last.output.matched
           /\ last.output.hours = IF HintIsPM(last.input) /\ H # 12 THEN H + 12
                                  ELSE IF ~HintIsPM(last.input) /\ H = 12 THEN 0
                                  ELSE H
           /\ last.output.minutes = M
           /\ last.output.hours \in 0..23

HintConversionWitness ==
    /\ last.op = "hint"
    /\ last.name = "12:05 a.m."
    /\ last.output = [matched |-> TRUE, hours |-> 0, minutes |-> 5]

----------------------------------------------------------------------------
(* Mark Complete and the periodic check *)

\* Mark Complete has been pressed on a notification of record e and its
\* write has been applied: the key it stores is in completedAssignments.
MarkedComplete(e, completed) ==
    \E h \in LeadHours : StripPrefix(ReminderId(Identity(e), h)) \in completed

\* C26: after the user presses Mark Complete on a notification of record R,
\* completedAssignments contains R's identity, the key the periodic check
\* looks up, so every later periodic check skips R and schedules no further
\* reminder for any of R's other intervals.
MarkCompleteCompletesRecord ==
    /\ (last.op = "complete" /\ pending = <<>>) =>
           \A e \in Records : \A h \in LeadHours :
               last.id = ReminderId(Identity(e), h)
                   => Identity(e) \in storage.completedAssignments
    /\ CheckRan =>
           \A e \in Records :
               MarkedComplete(e, last.read.completedAssignments)
                   => NothingCreatedFor(e)

----------------------------------------------------------------------------
(* Eligibility when a reminder alarm fires *)

\* C27: when a previously scheduled reminder alarm fires, a notification is
\* created only if reminders are enabled and the record's identity is not
\* in completedAssignments at that moment.
EligibilityRecheckedAtDelivery ==
    (last.op = "alarm" /\ last.shown) =>
        /\ SettingsOrDefault(storage.reminderSettings).enabled
        /\ \A e \in Records : \A h \in LeadHours :
               last.id = ReminderId(Identity(e), h)
                   => Identity(e) \notin last.read.completedAssignments

----------------------------------------------------------------------------
(* The alarm of the fire-now branch and the entry written for it *)

\* The pending alarm called id was created by a check in the fire-now
\* branch for record e and lead time h: the check ran ImmediateDelay before
\* the alarm's time, at or after the target time.
FireNowAlarm(id, e, h) ==
    /\ id = ReminderId(Identity(e), h)
    /\ id \in DOMAIN alarms
    /\ alarms[id].by = "check"
    /\ WellFormedToken(EffectiveToken(e))
    /\ alarms[id].when - ImmediateDelay >= TargetTime(e, h)

\* C28: no reminder is silently lost: when the alarm that a periodic check
\* created in the fire-now branch fires, the entry the check wrote for it
\* is in persisted reminders, and the notification is created.
NoReminderLost ==
    [][\A e \in Records : \A h \in LeadHours :
          LET id == ReminderId(Identity(e), h)
          IN (FireNowAlarm(id, e, h) /\ id \notin DOMAIN alarms'
                  /\ last'.op = "alarm" /\ last'.id = id)
                 => last'.shown]_vars

----------------------------------------------------------------------------
(* Entries of reminders and pending alarms *)

\* C29 (under SerialSpec): between handlers that run one at a time, every
\* entry in persisted reminders has a pending alarm of the same name.
NoOrphanedEntry ==
    pending = <<>> => \A id \in DOMAIN storage.reminders : id \in DOMAIN alarms

----------------------------------------------------------------------------
(* Leaving the Serenity theme *)

\* C30: whenever currentTheme is not 'serenity' and no applyTheme call is
\* executing, no Serenity CSS variable override is set and no Serenity
\* refresh timer is pending, also when applyTheme(other) is called while an
\* applySerenityTheme call is suspended on its weather lookup.
LeavingSerenityIsFinal ==
    theme.currentTheme # "serenity" =>
        /\ theme.overrides = NoOverrides
        /\ ~theme.refreshPending

============================================================================
